---- MODULE Spec2Model ----
(***************************************************************************)
(* Car rental server: the dynamic pricing / quote engine                   *)
(* (services/pricingService), the coupon validator (models/coupons) and    *)
(* the quote endpoint of the bookings controller.                          *)
(*                                                                         *)
(* Conventions of the model                                                *)
(*  - Money is counted in cents.  A value the source keeps unrounded (a    *)
(*    running product of percentages, a percentage discount) is an exact   *)
(*    fraction [n |-> numerator, d |-> denominator] of cents; Math.round   *)
(*    (x * 100) / 100 is MathRound, which yields whole cents.  Binary      *)
(*    floating point error of the JavaScript doubles is not modelled.      *)
(*  - A Date is its time value in hours since the epoch (the source's      *)
(*    milliseconds, sampled at whole hours); the server runs in UTC.       *)
(*  - A JavaScript object is a record; an absent property is a field that  *)
(*    is not in the record's DOMAIN.                                       *)
(***************************************************************************)
EXTENDS Integers, Sequences, FiniteSets, TLC

\* ------------------------------------------------------------------------
\* JavaScript values
\* ------------------------------------------------------------------------

\* o.f, a number, used as a condition: the property is present and not 0.
Truthy(o, f) ==
    /\ f \in DOMAIN o
    /\ o[f] # 0

\* o.f, a string or an object, used as a condition: the property is present
\* (the model holds no empty string).
Has(o, f) == f \in DOMAIN o

\* (1000 * 60 * 60 * 24) in the model's unit of time, the hour.
HoursPerDay == 24

RECURSIVE Gcd(_, _)
Gcd(a, b) == IF b = 0 THEN a ELSE Gcd(b, a % b)

Abs(x) == IF x < 0 THEN -x ELSE x

\* The fraction n/d (d > 0) in lowest terms.
Frac(n, d) ==
    LET g == Gcd(Abs(n), d)
    IN  IF g = 0 THEN [n |-> 0, d |-> 1] ELSE [n |-> n \div g, d |-> d \div g]

Whole(c) == [n |-> c, d |-> 1]

\* x * (1 + pct / 100)
TimesPct(x, pct) == Frac(x.n * (100 + pct), x.d * 100)

\* x * (pct / 100)
PctOf(x, pct) == Frac(x.n * pct, x.d * 100)

\* x + c, c in whole cents
Plus(x, c) == Frac(x.n + c * x.d, x.d)

Minus(x, y) == Frac(x.n * y.d - y.n * x.d, x.d * y.d)

\* Math.min(x, y)
MathMin(x, y) == IF y.n * x.d < x.n * y.d THEN y ELSE x

\* Math.round(x * 100) / 100 on an amount of cents: the nearest whole cent,
\* a tie going towards +infinity.
MathRound(x) == (2 * x.n + x.d) \div (2 * x.d)

\* Math.ceil(n / d), d > 0
MathCeil(n, d) == -((-n) \div d)

\* ------------------------------------------------------------------------
\* models/priceRules
\* ------------------------------------------------------------------------

\* A date-only string "YYYY-MM-DD" parses to UTC midnight of epoch day `day`.
DateOnly(day) == day * HoursPerDay

DEFAULT_PRICE_RULES ==
    << [type |-> "season", name |-> "Summer Peak Season",
        start |-> DateOnly(20240), end |-> DateOnly(20331), pct |-> 30],
       [type |-> "season", name |-> "Holiday Season",
        start |-> DateOnly(20442), end |-> DateOnly(20458), pct |-> 40],
       [type |-> "weekend", name |-> "Weekend Surcharge", pct |-> 15],
       [type |-> "length", name |-> "Weekly Discount", minDays |-> 7, pct |-> -10],
       [type |-> "length", name |-> "Monthly Discount", minDays |-> 30, pct |-> -20] >>

\* ------------------------------------------------------------------------
\* services/pricingService
\* ------------------------------------------------------------------------

\* Date.prototype.getDay: 0 = Sunday ... 6 = Saturday; the epoch day 0 was a
\* Thursday.
GetDay(date) == ((date \div HoursPerDay) + 4) % 7

isWeekendSatSun(date) == GetDay(date) = 6 \/ GetDay(date) = 0

isWeekend(date) ==
    LET day == GetDay(date)
    IN  day = 5 \/ day = 6 \/ day = 0

isInSeasonalPeriod(date, seasonStart, seasonEnd) ==
    date >= seasonStart /\ date <= seasonEnd

\* Array.prototype.filter with a test on the rule's type
RECURSIVE FilterType(_, _)
FilterType(rules, type) ==
    IF rules = <<>> THEN <<>>
    ELSE IF Head(rules).type = type
         THEN <<Head(rules)>> \o FilterType(Tail(rules), type)
         ELSE FilterType(Tail(rules), type)

\* The body of the loop over the season rules: one rule applied to the
\* running [price, appliedRules].
SeasonStep(acc, rule, date) ==
    IF isInSeasonalPeriod(date, rule.start, rule.end)
    THEN IF Truthy(rule, "pct")
         THEN [price |-> TimesPct(acc.price, rule.pct),
               appliedRules |-> Append(acc.appliedRules,
                   [type |-> "season", name |-> rule.name, adjustment |-> rule.pct])]
         ELSE IF Truthy(rule, "flat")
         THEN [price |-> Plus(acc.price, rule.flat),
               appliedRules |-> Append(acc.appliedRules,
                   [type |-> "season", name |-> rule.name, adjustment |-> rule.flat])]
         ELSE acc
    ELSE acc

RECURSIVE SeasonLoop(_, _, _)
SeasonLoop(acc, rules, date) ==
    IF rules = <<>> THEN acc
    ELSE SeasonLoop(SeasonStep(acc, Head(rules), date), Tail(rules), date)

\* rule.name || "Weekend Surcharge"
WeekendName(rule) ==
    IF Has(rule, "name") THEN rule.name ELSE "Weekend Surcharge"

\* One weekend rule applied to the running [price, appliedRules].
WeekendApply(acc, weekendRule) ==
    IF Truthy(weekendRule, "pct")
    THEN [price |-> TimesPct(acc.price, weekendRule.pct),
          appliedRules |-> Append(acc.appliedRules,
              [type |-> "weekend", name |-> WeekendName(weekendRule),
               adjustment |-> weekendRule.pct])]
    ELSE IF Truthy(weekendRule, "flat")
    THEN [price |-> Plus(acc.price, weekendRule.flat),
          appliedRules |-> Append(acc.appliedRules,
              [type |-> "weekend", name |-> WeekendName(weekendRule),
               adjustment |-> weekendRule.flat])]
    ELSE acc

RECURSIVE WeekendLoop(_, _)
WeekendLoop(acc, rules) ==
    IF rules = <<>> THEN acc
    ELSE WeekendLoop(WeekendApply(acc, Head(rules)), Tail(rules))

WeekendStepEveryRule(acc, priceRules, date) ==
    IF isWeekend(date) THEN WeekendLoop(acc, FilterType(priceRules, "weekend")) ELSE acc

\* if (isWeekend(date)) { priceRules.find(type === "weekend") ... }
WeekendStep(acc, priceRules, date) ==
    IF isWeekend(date)
    THEN LET found == FilterType(priceRules, "weekend")
         IN  IF found = <<>> THEN acc ELSE WeekendApply(acc, Head(found))
    ELSE acc

\* return { price: Math.round(adjustedPrice * 100) / 100, appliedRules }
NightResult(acc) == [price |-> MathRound(acc.price), appliedRules |-> acc.appliedRules]

RECURSIVE ListLoop(_, _, _, _)
ListLoop(acc, rules, priceRules, date) ==
    IF rules = <<>> THEN acc
    ELSE ListLoop(IF Head(rules).type = "season" THEN SeasonStep(acc, Head(rules), date)
                  ELSE IF Head(rules).type = "weekend"
                          /\ Head(rules) = Head(FilterType(priceRules, "weekend"))
                  THEN WeekendStep(acc, priceRules, date)
                  ELSE acc,
                  Tail(rules), priceRules, date)

applyPriceRulesInListOrder(basePrice, date, priceRules) ==
    NightResult(ListLoop([price |-> Whole(basePrice), appliedRules |-> <<>>],
                         priceRules, priceRules, date))

applyPriceRules(basePrice, date, priceRules) ==
    NightResult(
        WeekendStep(
            SeasonLoop([price |-> Whole(basePrice), appliedRules |-> <<>>],
                       FilterType(priceRules, "season"), date),
            priceRules, date))

NightsRoundedDown(start, end) == (end - start) \div HoursPerDay

\* Math.ceil((end - start) / (1000 * 60 * 60 * 24))
Nights(start, end) == MathCeil(end - start, HoursPerDay)

CurrentDateOfStart(start, i) == start

\* currentDate = new Date(start); currentDate.setDate(currentDate.getDate() + i)
CurrentDate(start, i) == start + i * HoursPerDay

\* currentDate.toISOString().split("T")[0]: the UTC calendar day, as its
\* epoch day number
IsoDate(date) == date \div HoursPerDay

\* The loop over the nights: dailyBreakdown[i + 1] is the record pushed for
\* night i.
DailyRecord(currentDate, night) ==
    [date |-> IsoDate(currentDate), price |-> night.price,
     appliedRules |-> night.appliedRules]

DailyBreakdown(basePrice, start, nights, priceRules) ==
    [k \in 1..nights |->
        DailyRecord(CurrentDate(start, k - 1),
                    applyPriceRules(basePrice, CurrentDate(start, k - 1), priceRules))]

RECURSIVE TotalPrice(_)
TotalPrice(daily) ==
    IF daily = <<>> THEN 0 ELSE Head(daily).price + TotalPrice(Tail(daily))

CollectEvery(all, appliedRules) == all \o appliedRules

\* appliedRules.forEach: push the rule unless one of the same name is there
RECURSIVE CollectUnique(_, _)
CollectUnique(all, appliedRules) ==
    IF appliedRules = <<>> THEN all
    ELSE CollectUnique(IF \E k \in 1..Len(all) : all[k].name = Head(appliedRules).name THEN all
                       ELSE Append(all, Head(appliedRules)),
                       Tail(appliedRules))

RECURSIVE AllAppliedRules(_, _)
AllAppliedRules(all, daily) ==
    IF daily = <<>> THEN all
    ELSE AllAppliedRules(CollectUnique(all, Head(daily).appliedRules), Tail(daily))

\* Insertion of one rule into a list sorted by descending minDays, after
\* the rules it does not precede (Array.prototype.sort is stable).
RECURSIVE InsertDesc(_, _)
InsertDesc(sorted, rule) ==
    IF sorted = <<>> THEN <<rule>>
    ELSE IF Head(sorted).minDays >= rule.minDays
         THEN <<Head(sorted)>> \o InsertDesc(Tail(sorted), rule)
         ELSE <<rule>> \o sorted

RECURSIVE SortDesc(_, _)
SortDesc(sorted, rules) ==
    IF rules = <<>> THEN sorted
    ELSE SortDesc(InsertDesc(sorted, Head(rules)), Tail(rules))

LengthRulesUnsorted(priceRules) == FilterType(priceRules, "length")

\* priceRules.filter(type === "length").sort((a, b) => b.minDays - a.minDays)
LengthRules(priceRules) == SortDesc(<<>>, FilterType(priceRules, "length"))

Null == [null |-> TRUE]

\* The length rule applied: lengthDiscount and appliedLengthRule.
LengthApplied(rule, adjustment, discount) ==
    [lengthDiscount |-> discount,
     appliedLengthRule |-> [type |-> "length", name |-> rule.name,
                            adjustment |-> adjustment, discount |-> discount]]

LengthApplySigned(rule, totalPrice) ==
    IF Truthy(rule, "pct")
    THEN LengthApplied(rule, rule.pct, PctOf(Whole(totalPrice), rule.pct))
    ELSE IF Truthy(rule, "flat")
    THEN LengthApplied(rule, rule.flat, Whole(rule.flat))
    ELSE [lengthDiscount |-> Whole(0), appliedLengthRule |-> Null]

LengthApply(rule, totalPrice) ==
    IF Truthy(rule, "pct")
    THEN LengthApplied(rule, rule.pct, PctOf(Whole(totalPrice), Abs(rule.pct)))
    ELSE IF Truthy(rule, "flat")
    THEN LengthApplied(rule, rule.flat, Whole(rule.flat))
    ELSE [lengthDiscount |-> Whole(0), appliedLengthRule |-> Null]

\* The loop over the sorted length rules, which ends at the first rule with
\* nights >= minDays whether or not that rule carries a pct or a flat.
RECURSIVE LengthLoop(_, _, _)
LengthLoop(lengthRules, nights, totalPrice) ==
    IF lengthRules = <<>>
    THEN [lengthDiscount |-> Whole(0), appliedLengthRule |-> Null]
    ELSE IF nights >= Head(lengthRules).minDays
         THEN LengthApply(Head(lengthRules), totalPrice)
         ELSE LengthLoop(Tail(lengthRules), nights, totalPrice)

\* An error message or a reason, as the record of its text.
Msg(text) == [text |-> text]

\* The object calculateRentalPrice returns.
RentalReturn(basePrice, nights, daily, totalPrice, length) ==
    [threw |-> FALSE,
     basePrice |-> basePrice,
     nights |-> nights,
     subtotal |-> MathRound(Whole(totalPrice)),
     lengthDiscount |-> MathRound(length.lengthDiscount),
     appliedLengthRule |-> length.appliedLengthRule,
     dailyBreakdown |-> daily,
     seasonalAndWeekendRules |-> AllAppliedRules(<<>>, daily)]

\* The length discount on the total of the nights.
RentalDiscounted(basePrice, nights, daily, totalPrice, priceRules) ==
    RentalReturn(basePrice, nights, daily, totalPrice,
                 LengthLoop(LengthRules(priceRules), nights, totalPrice))

\* The loop over the nights and its running total.
RentalOfNights(basePrice, nights, daily, priceRules) ==
    RentalDiscounted(basePrice, nights, daily, TotalPrice(daily), priceRules)

RentalForNights(basePrice, startDate, nights, priceRules) ==
    IF nights <= 0
    THEN [threw |-> TRUE, message |-> Msg("End date must be after start date")]
    ELSE RentalOfNights(basePrice, nights,
                        DailyBreakdown(basePrice, startDate, nights, priceRules),
                        priceRules)

\* startDate and endDate are parsable dates, given as their time values.
calculateRentalPrice(basePrice, startDate, endDate, priceRules) ==
    RentalForNights(basePrice, startDate, Nights(startDate, endDate), priceRules)

\* `Coupon requires minimum ${coupon.minDays} days rental`
MinimumDaysNotMet(minDays) ==
    [threw |-> TRUE,
     message |-> [text |-> "Coupon requires minimum ${minDays} days rental",
                  minDays |-> minDays]]

\* The discount before the clamp: subtotal * (pct / 100), or flat, or 0.
CouponDiscountRaw(subtotal, coupon) ==
    IF Truthy(coupon, "pct") THEN PctOf(Whole(subtotal), coupon.pct)
    ELSE IF Truthy(coupon, "flat") THEN Whole(coupon.flat)
    ELSE Whole(0)

MinDaysIgnored(coupon, nights) == FALSE

\* coupon.minDays && nights < coupon.minDays
MinDaysUnmet(coupon, nights) == Truthy(coupon, "minDays") /\ nights < coupon.minDays

\* coupon is a coupon object or Null; subtotal is in whole cents.
applyCouponDiscount(subtotal, coupon, nights) ==
    IF coupon = Null THEN [threw |-> FALSE, value |-> Whole(0)]
    ELSE IF MinDaysUnmet(coupon, nights) THEN MinimumDaysNotMet(coupon.minDays)
    ELSE [threw |-> FALSE,
          value |-> MathMin(CouponDiscountRaw(subtotal, coupon), Whole(subtotal))]

\* taxRate = 0.1, as the percentage
TaxRatePct == 10

calculateTaxesRoundedDown(amount) == PctOf(amount, TaxRatePct).n \div PctOf(amount, TaxRatePct).d

\* Math.round(amount * taxRate * 100) / 100
calculateTaxes(amount) == MathRound(PctOf(amount, TaxRatePct))

\* car.dailyRentalPrice || car.price || 0
BasePrice(car) ==
    IF Truthy(car, "dailyRentalPrice") THEN car.dailyRentalPrice
    ELSE IF Truthy(car, "price") THEN car.price
    ELSE 0

\* The locals of generateQuote once the taxes are known: the amounts the
\* source keeps unrounded are fractions of cents.
LocalsTaxed(subtotalAfterLengthDiscount, couponDiscount, couponError, amountAfterDiscounts, taxes) ==
    [subtotalAfterLengthDiscount |-> subtotalAfterLengthDiscount,
     couponDiscount |-> couponDiscount,
     couponError |-> couponError,
     amountAfterDiscounts |-> amountAfterDiscounts,
     taxes |-> taxes,
     total |-> MathRound(Plus(amountAfterDiscounts, taxes))]

LocalsAmount(subtotalAfterLengthDiscount, couponDiscount, couponError, amountAfterDiscounts) ==
    LocalsTaxed(subtotalAfterLengthDiscount, couponDiscount, couponError,
                amountAfterDiscounts, calculateTaxes(amountAfterDiscounts))

\* try { couponDiscount = applyCouponDiscount(...) } catch (error)
\* { couponError = error.message }, then the amount after all discounts
LocalsCoupon(subtotalAfterLengthDiscount, couponDiscount, couponError) ==
    LocalsAmount(subtotalAfterLengthDiscount, couponDiscount, couponError,
                 Minus(Whole(subtotalAfterLengthDiscount), couponDiscount))

LocalsAttempt(subtotalAfterLengthDiscount, attempt) ==
    IF attempt.threw
    THEN LocalsCoupon(subtotalAfterLengthDiscount, Whole(0), attempt.message)
    ELSE LocalsCoupon(subtotalAfterLengthDiscount, attempt.value, Null)

\* The locals of generateQuote between the rental calculation and the
\* returned object.
QuoteLocals(rentalCalculation, coupon) ==
    LocalsAttempt(
        rentalCalculation.subtotal - rentalCalculation.lengthDiscount,
        applyCouponDiscount(rentalCalculation.subtotal - rentalCalculation.lengthDiscount,
                            coupon, rentalCalculation.nights))

\* The object generateQuote returns; l holds its locals.
QuoteReturn(basePrice, rentalCalculation, coupon, l) ==
    [threw |-> FALSE,
     nightly |-> basePrice,
     nights |-> rentalCalculation.nights,
     subtotal |-> MathRound(Whole(rentalCalculation.subtotal)),
     lengthDiscount |-> MathRound(Whole(rentalCalculation.lengthDiscount)),
     couponDiscount |-> MathRound(l.couponDiscount),
     taxes |-> l.taxes,
     total |-> l.total,
     priceBreakdown |->
         [baseSubtotal |-> MathRound(Whole(rentalCalculation.subtotal)),
          afterLengthDiscount |-> MathRound(Whole(l.subtotalAfterLengthDiscount)),
          afterCouponDiscount |-> MathRound(l.amountAfterDiscounts),
          taxableAmount |-> MathRound(l.amountAfterDiscounts),
          finalTotal |-> l.total],
     appliedRules |->
         [length |-> rentalCalculation.appliedLengthRule,
          seasonal |-> rentalCalculation.seasonalAndWeekendRules,
          coupon |-> IF coupon = Null THEN Null
                     ELSE [code |-> coupon.code,
                           discount |-> MathRound(l.couponDiscount),
                           error |-> l.couponError]],
     dailyBreakdown |-> rentalCalculation.dailyBreakdown]

\* An error of calculateRentalPrice propagates.
QuoteOfRental(basePrice, rentalCalculation, coupon) ==
    IF rentalCalculation.threw THEN rentalCalculation
    ELSE QuoteReturn(basePrice, rentalCalculation, coupon,
                     QuoteLocals(rentalCalculation, coupon))

generateQuoteMissingPrice(car, startDate, endDate, coupon, priceRules) ==
    IF BasePrice(car) = 0 THEN [threw |-> TRUE, message |-> Msg("MissingPrice")]
    ELSE QuoteOfRental(BasePrice(car),
                       calculateRentalPrice(BasePrice(car), startDate, endDate, priceRules),
                       coupon)

\* coupon is a coupon object or Null; the dates are parsable.
generateQuote(car, startDate, endDate, coupon, priceRules) ==
    QuoteOfRental(BasePrice(car),
                  calculateRentalPrice(BasePrice(car), startDate, endDate, priceRules),
                  coupon)

\* ------------------------------------------------------------------------
\* models/coupons
\* ------------------------------------------------------------------------

\* coupon.usageLimit && coupon.usageCount >= coupon.usageLimit
UsageLimitReached(coupon) ==
    Truthy(coupon, "usageLimit") /\ coupon.usageCount >= coupon.usageLimit

isCouponValidExpiryFirst(coupon, now) ==
    IF now > coupon.expiresAt
    THEN [valid |-> FALSE, reason |-> Msg("Coupon has expired")]
    ELSE IF ~coupon.active
    THEN [valid |-> FALSE, reason |-> Msg("Coupon is no longer active")]
    ELSE IF UsageLimitReached(coupon)
    THEN [valid |-> FALSE, reason |-> Msg("Coupon usage limit reached")]
    ELSE [valid |-> TRUE]

\* now is the value of new Date() at the call; coupon.expiresAt is a
\* parsable date, given as its time value.
isCouponValid(coupon, now) ==
    IF ~coupon.active
    THEN [valid |-> FALSE, reason |-> Msg("Coupon is no longer active")]
    ELSE IF now > coupon.expiresAt
    THEN [valid |-> FALSE, reason |-> Msg("Coupon has expired")]
    ELSE IF UsageLimitReached(coupon)
    THEN [valid |-> FALSE, reason |-> Msg("Coupon usage limit reached")]
    ELSE [valid |-> TRUE]

\* ------------------------------------------------------------------------
\* controllers/bookingsController: the quote endpoint
\* ------------------------------------------------------------------------

\* A date string is [t |-> time value] when new Date() parses it and
\* [text |-> ...] when it does not (getTime() is NaN).
IsValidDate(s) == "t" \in DOMAIN s

\* An id string is [oid |-> n] when it is the 24 hex digits of an ObjectId
\* and [text |-> ...] when new ObjectId() throws on it.
IsObjectId(s) == "oid" \in DOMAIN s

\* String.prototype.toUpperCase on the coupon codes of the model
toUpperCase(code) ==
    CASE code = "welcome10" -> "WELCOME10"
      [] code = "save50"    -> "SAVE50"
      [] code = "Free100"   -> "FREE100"
      [] OTHER              -> code

\* collection.findOne(filter): the matching document, or Null
FindOne(matching) == IF matching = {} THEN Null ELSE CHOOSE doc \in matching : TRUE

\* A parsable date string is written "YYYY-MM-DDTHH:00:00Z", the record
\* [t |-> time value], or with milliseconds as Date.prototype.toISOString
\* writes it, "YYYY-MM-DDTHH:00:00.000Z", the record [t |-> time value,
\* ms |-> TRUE].  Two such strings agree up to the seconds exactly when they
\* name the same time, and there "." sorts before "Z".
SuffixOrder(s) == IF Has(s, "ms") THEN 0 ELSE 1

\* $lte on two strings: the order of their characters
StringLte(a, b) ==
    \/ a.t < b.t
    \/ a.t = b.t /\ SuffixOrder(a) <= SuffixOrder(b)

\* The query of the availability check, on the documents of the bookings
\* collection in their stored order: the stored strings are compared with
\* the strings of the request; a document that lacks a field of the filter
\* does not match.
Conflicts(b, carId, startDate, endDate) ==
    /\ Has(b, "carId") /\ Has(b, "status")
    /\ Has(b, "startDate") /\ Has(b, "endDate")
    /\ b.carId = carId
    /\ b.status \in {"confirmed", "pending"}
    /\ StringLte(b.startDate, endDate)
    /\ StringLte(startDate, b.endDate)

RECURSIVE ConflictingBookings(_, _, _, _)
ConflictingBookings(stored, carId, startDate, endDate) ==
    IF stored = <<>> THEN <<>>
    ELSE (IF Conflicts(Head(stored), carId, startDate, endDate)
          THEN <<Head(stored)>> ELSE <<>>)
         \o ConflictingBookings(Tail(stored), carId, startDate, endDate)

Status(code, message) == [status |-> code, body |-> [error |-> Msg(message)]]

\* car.priceRules || undefined, then the default parameter of generateQuote
CarPriceRules(car) ==
    IF "priceRules" \in DOMAIN car THEN car.priceRules ELSE DEFAULT_PRICE_RULES

CouponGateKeepsCoupon(couponData, validation) ==
    [couponData |-> couponData,
     couponError |-> IF ~validation.valid THEN validation.reason ELSE Null]

\* if (!validation.valid) { couponError = validation.reason; couponData = null }
CouponGate(couponData, validation) ==
    IF ~validation.valid
    THEN [couponData |-> Null, couponError |-> validation.reason]
    ELSE [couponData |-> couponData, couponError |-> Null]

CouponFound(couponData, now) ==
    IF couponData = Null
    THEN [couponData |-> Null, couponError |-> Msg("Invalid coupon code")]
    ELSE CouponGate(couponData, isCouponValid(couponData, now))

\* The coupon block of the handler: [couponData, couponError]
CouponLookup(body, couponDocs, now) ==
    IF Has(body, "coupon")
    THEN CouponFound(FindOne({c \in couponDocs : c.code = toUpperCase(body.coupon)}),
                     now)
    ELSE [couponData |-> Null, couponError |-> Null]

DateCheckLenient(start, end) == end < start

\* if (end <= start)
DateCheck(start, end) == end <= start

\* res.send({...quote, unavailable, conflictingDates, couponError})
QuoteResponse(conflictingBookings, found, quote) ==
    [status |-> 200,
     body |-> [quote |-> quote,
               unavailable |-> Len(conflictingBookings) > 0,
               conflictingDates |->
                   IF Len(conflictingBookings) > 0
                   THEN [k \in 1..Len(conflictingBookings) |->
                            [startDate |-> conflictingBookings[k].startDate,
                             endDate |-> conflictingBookings[k].endDate]]
                   ELSE <<>>,
               couponError |->
                   IF found.couponError # Null THEN found.couponError
                   ELSE IF quote.appliedRules.coupon = Null THEN [undefined |-> TRUE]
                   ELSE quote.appliedRules.coupon.error]]

\* An error generateQuote throws is caught by the handler's catch block.
QuoteAnswer(conflictingBookings, found, quote) ==
    IF quote.threw
    THEN [status |-> 500,
          body |-> [error |-> Msg("Failed to generate quote"),
                    details |-> quote.message]]
    ELSE QuoteResponse(conflictingBookings, found, quote)

QuoteWithCoupon(body, car, conflictingBookings, found) ==
    QuoteAnswer(conflictingBookings, found,
                generateQuote(car, body.startDate.t, body.endDate.t,
                              found.couponData, CarPriceRules(car)))

QuoteForCarIfAvailable(body, car, bookingDocs, couponDocs, now) ==
    IF car = Null THEN Status(404, "Car not found")
    ELSE IF ConflictingBookings(bookingDocs, body.carId, body.startDate, body.endDate) # <<>>
    THEN Status(409, "Car is not available for the selected dates")
    ELSE QuoteWithCoupon(body, car, <<>>, CouponLookup(body, couponDocs, now))

QuoteForCar(body, car, bookingDocs, couponDocs, now) ==
    IF car = Null THEN Status(404, "Car not found")
    ELSE QuoteWithCoupon(body, car,
                         ConflictingBookings(bookingDocs, body.carId,
                                             body.startDate, body.endDate),
                         CouponLookup(body, couponDocs, now))

\* The handler from the car lookup on; dbFails: an operation on a
\* collection rejects, and the catch block answers as it does when
\* new ObjectId(carId) throws.
QuoteAfterValidation(body, carDocs, bookingDocs, couponDocs, now, dbFails) ==
    IF ~IsObjectId(body.carId) \/ dbFails
    THEN Status(500, "Failed to generate quote")
    ELSE QuoteForCar(body, FindOne({c \in carDocs : c._id = body.carId}),
                     bookingDocs, couponDocs, now)

\* The response of POST /api/bookings/quote to the request body `body`.
getBookingQuote(body, carDocs, bookingDocs, couponDocs, now, dbFails) ==
    IF ~(Has(body, "carId") /\ Has(body, "startDate") /\ Has(body, "endDate"))
    THEN Status(400, "carId, startDate, and endDate are required")
    ELSE IF ~IsValidDate(body.startDate) \/ ~IsValidDate(body.endDate)
    THEN Status(400, "Invalid date format")
    ELSE IF body.startDate.t < now
    THEN Status(400, "Start date cannot be in the past")
    ELSE IF DateCheck(body.startDate.t, body.endDate.t)
    THEN Status(400, "End date must be after start date")
    ELSE QuoteAfterValidation(body, carDocs, bookingDocs, couponDocs, now, dbFails)

\* ------------------------------------------------------------------------
\* controllers/bookingsController: createBooking
\* ------------------------------------------------------------------------

\* car.bookingCount, a field $inc creates when it is absent
BookingCount(car) == IF Has(car, "bookingCount") THEN car.bookingCount ELSE 0

\* carsCollection.updateOne({ _id }, { $inc: { bookingCount: 1 } }): the
\* documents of the collection afterwards
UpdateOneInc(carDocs, id) ==
    {IF car._id = id
     THEN [f \in DOMAIN car \cup {"bookingCount"} |->
              IF f = "bookingCount" THEN BookingCount(car) + 1 ELSE car[f]]
     ELSE car : car \in carDocs}

\* What the handler leaves behind: the two collections and its response.
Outcome(bookingDocs, carDocs, response) ==
    [bookings |-> bookingDocs, cars |-> carDocs, response |-> response]

\* The handler once insertOne has stored the booking: new ObjectId(carId)
\* throws on a string that is no ObjectId and makes a fresh id of an absent
\* carId; updateFails: updateOne rejects.  Either way the catch block
\* answers 500 and the booking stays stored.
CreateAfterInsert(booking, stored, carDocs, updateFails) ==
    IF Has(booking, "carId") /\ ~IsObjectId(booking.carId)
    THEN Outcome(stored, carDocs, Status(500, "Failed to create booking"))
    ELSE IF updateFails
    THEN Outcome(stored, carDocs, Status(500, "Failed to create booking"))
    ELSE Outcome(stored,
                 IF Has(booking, "carId") THEN UpdateOneInc(carDocs, booking.carId)
                 ELSE carDocs,
                 [status |-> 201, body |-> [acknowledged |-> TRUE]])

\* POST /api/bookings with the body `booking`; insertFails: insertOne
\* rejects or is not acknowledged and nothing is stored.
createBooking(booking, bookingDocs, carDocs, insertFails, updateFails) ==
    IF insertFails
    THEN Outcome(bookingDocs, carDocs, Status(500, "Failed to create booking"))
    ELSE CreateAfterInsert(booking, Append(bookingDocs, booking), carDocs, updateFails)

\* ------------------------------------------------------------------------
\* The server: its collections, its clock, one request and the outcome of
\* the last operation
\* ------------------------------------------------------------------------

VARIABLES
    cars,       \* the documents of the cars collection
    bookings,   \* the documents of the bookings collection, in stored order
    coupons,    \* the documents of the coupons collection
    now,        \* the server's clock
    req,        \* the body of the request at hand
    res,        \* the last operation and what it returned or answered
    log         \* the calls and requests served so far, oldest first

vars == <<cars, bookings, coupons, now, req, res, log>>

\* 2025-11-01, a Saturday: the first start date of the testing guide
FirstDay == 20393

\* Start dates run over FirstDay .. FirstDay + MaxStartOffset.
MaxStartOffset == 2

StackedRules ==
    << [type |-> "season", name |-> "Promo Week",
        start |-> DateOnly(FirstDay + 1), end |-> DateOnly(FirstDay + 3), pct |-> 30],
       [type |-> "length", name |-> "Short Stay", minDays |-> 2, flat |-> 300],
       [type |-> "season", name |-> "Event Fee",
        start |-> DateOnly(FirstDay), end |-> DateOnly(FirstDay + 2), flat |-> 500],
       [type |-> "weekend", name |-> "Weekend Surcharge", pct |-> 15],
       [type |-> "length", name |-> "Weekly Discount", minDays |-> 7, pct |-> 10],
       [type |-> "weekend", name |-> "Late Checkout", flat |-> 700],
       [type |-> "length", name |-> "Three Nights", minDays |-> 3, pct |-> -5] >>

LoyaltyRules ==
    << [type |-> "weekend", flat |-> 200],
       [type |-> "length", name |-> "Loyalty", minDays |-> 1, flat |-> 5000] >>

WeekendFirst ==
    << [type |-> "weekend", name |-> "Weekend Surcharge", pct |-> 15],
       [type |-> "season", name |-> "Holiday Fee",
        start |-> DateOnly(FirstDay), end |-> DateOnly(FirstDay + 1), flat |-> 250],
       [type |-> "season", name |-> "Holiday",
        start |-> DateOnly(FirstDay), end |-> DateOnly(FirstDay + 1), pct |-> 20] >>

Oid(k) == [oid |-> k]

CarDocs ==
    { [_id |-> Oid(1), dailyRentalPrice |-> 10000, bookingCount |-> 4,
       userEmail |-> "ann@example.com", dateAdded |-> DateOnly(FirstDay - 140) + 10],
      [_id |-> Oid(2), dailyRentalPrice |-> 333, price |-> 9999,
       priceRules |-> StackedRules, dateAdded |-> DateOnly(FirstDay - 50)],
      [_id |-> Oid(3), price |-> 1000, priceRules |-> LoyaltyRules,
       userEmail |-> "ann@example.com", dateAdded |-> DateOnly(FirstDay - 140) + 10],
      [_id |-> Oid(4), priceRules |-> <<>>, dateAdded |-> DateOnly(FirstDay - 60) + 8],
      [_id |-> Oid(5), dailyRentalPrice |-> 1000, priceRules |-> <<>>,
       userEmail |-> "bob@example.com", dateAdded |-> DateOnly(FirstDay - 30)],
      [_id |-> Oid(6), dailyRentalPrice |-> 5000, dateAdded |-> DateOnly(FirstDay - 200)],
      [_id |-> Oid(7), dailyRentalPrice |-> 49, priceRules |-> LoyaltyRules,
       dateAdded |-> DateOnly(FirstDay - 300)],
      [_id |-> Oid(8), dailyRentalPrice |-> 5000, priceRules |->
          << [type |-> "length", name |-> "Weekly Discount", minDays |-> 7, pct |-> -10] >>],
      [_id |-> Oid(9), dailyRentalPrice |-> 10000, priceRules |-> <<>>,
       userEmail |-> "ann@example.com"],
      [_id |-> Oid(10), dailyRentalPrice |-> 4141, priceRules |-> WeekendFirst],
      [_id |-> Oid(11), dailyRentalPrice |-> 0, price |-> 0, priceRules |-> LoyaltyRules] }

Clock == DateOnly(FirstDay) + 5

Later == DateOnly(FirstDay + 400)

Earlier == DateOnly(FirstDay - 60)

\* "YYYY-MM-DDT23:59:59Z" of epoch day `day`: a clock of whole hours is past
\* it exactly when it is past 23:00 of that day.
EndOfDay(day) == DateOnly(day) + 23

\* The coupons collection: DEFAULT_COUPONS (2026-12-31, 2025-08-31,
\* 2025-12-31, 2026-06-30) and coupons stored since.
CouponDocs ==
    { [code |-> "WELCOME10", pct |-> 10, expiresAt |-> EndOfDay(20818), active |-> TRUE,
       usageLimit |-> 1000, usageCount |-> 0],
      [code |-> "SUMMER20", pct |-> 20, expiresAt |-> EndOfDay(20331), active |-> TRUE,
       usageLimit |-> 500, usageCount |-> 0],
      [code |-> "SAVE50", flat |-> 5000, expiresAt |-> EndOfDay(20453), active |-> TRUE,
       usageLimit |-> 100, usageCount |-> 0],
      [code |-> "LONGTERM", pct |-> 15, expiresAt |-> EndOfDay(20634), active |-> TRUE,
       usageLimit |-> 200, usageCount |-> 0, minDays |-> 7],
      [code |-> "RETIRED", pct |-> 50, expiresAt |-> Earlier, active |-> FALSE,
       usageLimit |-> 5, usageCount |-> 5],
      [code |-> "PAUSED", flat |-> 1000, expiresAt |-> Later, active |-> FALSE,
       usageLimit |-> 5, usageCount |-> 0],
      [code |-> "LASTYEAR", pct |-> 25, expiresAt |-> Earlier, active |-> TRUE,
       usageLimit |-> 5, usageCount |-> 7],
      [code |-> "USEDUP", pct |-> 70, expiresAt |-> Clock, active |-> TRUE,
       usageLimit |-> 5, usageCount |-> 5],
      [code |-> "FREE100", pct |-> 100, expiresAt |-> Later, active |-> TRUE,
       usageLimit |-> 0, usageCount |-> 0],
      [code |-> "OPEN70", pct |-> 70, expiresAt |-> Later, active |-> TRUE,
       usageCount |-> 3] }

BookingLists ==
    { <<>>,
      << [carId |-> Oid(1), status |-> "confirmed", userEmail |-> "bob@example.com",
          startDate |-> [t |-> DateOnly(FirstDay + 1)],
          endDate |-> [t |-> DateOnly(FirstDay + 1) + 10]],
         [carId |-> Oid(1), status |-> "canceled", userEmail |-> "ann@example.com",
          startDate |-> [t |-> DateOnly(FirstDay)],
          endDate |-> [t |-> DateOnly(FirstDay + 30)]],
         [carId |-> Oid(2), status |-> "pending", userEmail |-> "ann@example.com",
          startDate |-> [t |-> DateOnly(FirstDay + 3) + 10],
          endDate |-> [t |-> DateOnly(FirstDay + 5)]] >>,
      << [carId |-> Oid(5), status |-> "confirmed",
          startDate |-> [t |-> DateOnly(FirstDay - 2), ms |-> TRUE],
          endDate |-> [t |-> DateOnly(FirstDay) + 10, ms |-> TRUE]],
         [carId |-> Oid(6), status |-> "pending",
          startDate |-> [t |-> DateOnly(FirstDay + 1) + 3, ms |-> TRUE],
          endDate |-> [t |-> DateOnly(FirstDay + 9), ms |-> TRUE]] >> }

\* Start at 00:00 or 10:00 of a day; end - start runs from a day before to 30 days.
DatedBodies ==
    {[carId |-> id, startDate |-> [t |-> s], endDate |-> [t |-> s + d]] :
        id \in {c._id : c \in CarDocs} \cup {Oid(99), [text |-> "YOUR_CAR_ID_HERE"]},
        s \in {DateOnly(FirstDay + k) + h : k \in 0..MaxStartOffset, h \in {0, 10}},
        d \in {-24, 0, 3, 24, 30, 72, 120, 168, 192, 696, 720}}

WithCoupon(body, code) ==
    [f \in DOMAIN body \cup {"coupon"} |-> IF f = "coupon" THEN code ELSE body[f]]

Without(body, field) == [f \in DOMAIN body \ {field} |-> body[f]]

NotADate == [text |-> "tomorrow"]

\* The request bodies of the model.
Bodies ==
    DatedBodies
    \cup {WithCoupon(b, code) :
            b \in DatedBodies,
            code \in {c.code : c \in CouponDocs}
                     \cup {"welcome10", "save50", "Free100", "INVALID123"}}
    \cup {Without(b, f) : b \in DatedBodies, f \in {"carId", "startDate", "endDate"}}
    \cup {[b EXCEPT !.startDate = NotADate] : b \in DatedBodies}
    \cup {[b EXCEPT !.endDate = NotADate] : b \in DatedBodies}

Init ==
    /\ cars = CarDocs
    /\ coupons = CouponDocs
    /\ bookings \in BookingLists
    /\ now = Clock
    /\ req \in Bodies
    /\ res = [op |-> "none"]
    /\ log = <<>>

\* The arguments a direct call of the pricing service takes from the request:
\* they exist when the request names a stored car and two parsable dates.
Callable ==
    /\ Has(req, "carId") /\ Has(req, "startDate") /\ Has(req, "endDate")
    /\ IsValidDate(req.startDate) /\ IsValidDate(req.endDate)
    /\ \E c \in cars : c._id = req.carId

ArgCar == FindOne({c \in cars : c._id = req.carId})

\* The coupon document the request's code names, not validated, or Null.
ArgCoupon ==
    IF Has(req, "coupon")
    THEN FindOne({c \in coupons : c.code = toUpperCase(req.coupon)})
    ELSE Null

ArgRental ==
    calculateRentalPrice(BasePrice(ArgCar), req.startDate.t, req.endDate.t,
                         CarPriceRules(ArgCar))

Returned(op, ret) ==
    /\ res' = [op |-> op, ret |-> ret]
    /\ UNCHANGED <<cars, bookings, coupons, now, req, log>>

CallApplyPriceRules ==
    /\ res.op = "none"
    /\ Callable
    /\ Returned("applyPriceRules",
                applyPriceRules(BasePrice(ArgCar), req.startDate.t, CarPriceRules(ArgCar)))

CallCalculateRentalPrice ==
    /\ res.op = "none"
    /\ Callable
    /\ Returned("calculateRentalPrice", ArgRental)

\* applyCouponDiscount on the amount and the nights generateQuote passes it
CallApplyCouponDiscount ==
    /\ res.op = "none"
    /\ Callable
    /\ \E rental \in {ArgRental} :
          /\ ~rental.threw
          /\ Returned("applyCouponDiscount",
                      applyCouponDiscount(rental.subtotal - rental.lengthDiscount,
                                          ArgCoupon, rental.nights))

CallGenerateQuote ==
    /\ res.op = "none"
    /\ Callable
    /\ Returned("generateQuote",
                generateQuote(ArgCar, req.startDate.t, req.endDate.t, ArgCoupon,
                              CarPriceRules(ArgCar)))

CallIsCouponValid ==
    /\ res.op = "none"
    /\ ArgCoupon # Null
    /\ Returned("isCouponValid", isCouponValid(ArgCoupon, now))

\* POST /api/bookings/quote
PostQuote ==
    /\ res.op = "none"
    /\ \E dbFails \in BOOLEAN :
          Returned("getBookingQuote",
                   getBookingQuote(req, cars, bookings, coupons, now, dbFails))

Next ==
    \/ CallApplyPriceRules
    \/ CallCalculateRentalPrice
    \/ CallApplyCouponDiscount
    \/ CallGenerateQuote
    \/ CallIsCouponValid
    \/ PostQuote

Spec == Init /\ [][Next]_vars

\* ------------------------------------------------------------------------
\* The server over time: requests and calls served one after another while
\* the clock advances
\* ------------------------------------------------------------------------

\* At most MaxCalls requests and calls are served.
MaxCalls == 2

\* The clock advances at most MaxTicks times.
MaxTicks == 1

\* One advance of the clock, in hours.
TickHours == 2 * HoursPerDay

ServerCoupons == {"USEDUP", "LONGTERM"}

ServerDatedBodies ==
    {[carId |-> id, startDate |-> [t |-> DateOnly(FirstDay + 1)],
      endDate |-> [t |-> DateOnly(FirstDay + 1) + d]] :
        id \in {Oid(1), Oid(3)}, d \in {24, 192}}

\* The bodies of the quote requests the server receives.
ServerBodies ==
    ServerDatedBodies
    \cup {WithCoupon(b, code) : b \in ServerDatedBodies, code \in ServerCoupons}

ServerInit ==
    /\ cars = CarDocs
    /\ coupons = CouponDocs
    /\ bookings \in BookingLists
    /\ now = Clock
    /\ req = [none |-> TRUE]
    /\ res = [op |-> "none"]
    /\ log = <<>>

\* The entry of the log for an operation served at the time `now`.
Entry(op, args, ret) == [op |-> op, args |-> args, at |-> now, ret |-> ret]

\* Time passes.
Tick ==
    /\ now < Clock + MaxTicks * TickHours
    /\ now' = now + TickHours
    /\ UNCHANGED <<cars, bookings, coupons, req, res, log>>

\* coupon.usageCount + 1 on the coupon a quote request names
UsedOnce(couponDocs, body) ==
    {IF Has(body, "coupon") /\ c.code = toUpperCase(body.coupon)
     THEN [c EXCEPT !.usageCount = @ + 1] ELSE c : c \in couponDocs}

HandleQuoteCountingUsage ==
    /\ Len(log) < MaxCalls
    /\ \E body \in ServerBodies, dbFails \in BOOLEAN :
          \E answer \in {getBookingQuote(body, cars, bookings, coupons, now, dbFails)} :
              /\ req' = body
              /\ res' = [op |-> "getBookingQuote", ret |-> answer]
              /\ log' = Append(log, Entry("getBookingQuote", body, answer))
              /\ coupons' = IF answer.status = 200 THEN UsedOnce(coupons, body) ELSE coupons
    /\ UNCHANGED <<cars, bookings, now>>

\* POST /api/bookings/quote: the handler reads the three collections and
\* writes to none of them.
HandleQuote ==
    /\ Len(log) < MaxCalls
    /\ \E body \in ServerBodies, dbFails \in BOOLEAN :
          \E answer \in {getBookingQuote(body, cars, bookings, coupons, now, dbFails)} :
              /\ req' = body
              /\ res' = [op |-> "getBookingQuote", ret |-> answer]
              /\ log' = Append(log, Entry("getBookingQuote", body, answer))
    /\ UNCHANGED <<cars, bookings, coupons, now>>

\* The arguments of a direct call of generateQuote.
QuoteArgs ==
    {[car |-> car, startDate |-> DateOnly(FirstDay + 1) + 10,
      endDate |-> DateOnly(FirstDay + 1) + 10 + d, coupon |-> coupon,
      priceRules |-> CarPriceRules(car)] :
        car \in {c \in cars : c._id \in {Oid(2), Oid(6)}},
        d \in {72},
        coupon \in {Null} \cup {c \in coupons : c.code \in ServerCoupons}}

ExportedGenerateQuoteByClock(a) ==
    generateQuote(a.car, a.startDate, a.endDate,
                  IF a.coupon # Null /\ now > a.coupon.expiresAt THEN Null ELSE a.coupon,
                  a.priceRules)

\* pricingService.generateQuote applied to the arguments of a call: the
\* function reads nothing but its arguments.
ExportedGenerateQuote(a) ==
    generateQuote(a.car, a.startDate, a.endDate, a.coupon, a.priceRules)

ArgumentsAfterSortInPlace(a) ==
    [a EXCEPT !.priceRules =
        LengthRules(a.priceRules) \o SelectSeq(a.priceRules, LAMBDA r : r.type # "length")]

\* The arguments of a call as they are when it has returned: filter builds
\* new arrays of the rules it keeps and the sort reorders such an array, the
\* dates are copied before setDate, and nothing is assigned to a property of
\* car, coupon or a rule.
ArgumentsAfter(a) == a

\* A call of pricingService.generateQuote.
InvokeGenerateQuote ==
    /\ Len(log) < MaxCalls
    /\ \E a \in QuoteArgs :
          \E quote \in {ExportedGenerateQuote(a)} :
              /\ res' = [op |-> "generateQuote", ret |-> quote]
              /\ log' = Append(log, [op |-> "generateQuote", args |-> a, at |-> now,
                                     ret |-> quote, after |-> ArgumentsAfter(a)])
    /\ UNCHANGED <<cars, bookings, coupons, now, req>>

\* The bodies of the booking requests the server receives.
BookingBodies ==
    {[carId |-> id, status |-> "confirmed", userEmail |-> "ann@example.com",
      startDate |-> [t |-> DateOnly(FirstDay + 1)],
      endDate |-> [t |-> DateOnly(FirstDay + 2)]] :
        id \in {Oid(1), Oid(3), Oid(99), [text |-> "YOUR_CAR_ID_HERE"]}}
    \cup {[status |-> "pending", userEmail |-> "bob@example.com", coupon |-> "LONGTERM"]}

\* POST /api/bookings
HandleCreateBooking ==
    /\ Len(log) < MaxCalls
    /\ \E booking \in BookingBodies, insertFails \in BOOLEAN, updateFails \in BOOLEAN :
          \E out \in {createBooking(booking, bookings, cars, insertFails, updateFails)} :
              /\ bookings' = out.bookings
              /\ cars' = out.cars
              /\ req' = booking
              /\ res' = [op |-> "createBooking", ret |-> out.response]
              /\ log' = Append(log, Entry("createBooking", booking, out.response))
    /\ UNCHANGED <<coupons, now>>

ServerNext ==
    \/ Tick
    \/ HandleQuote
    \/ InvokeGenerateQuote

Server == ServerInit /\ [][ServerNext]_vars

\* ------------------------------------------------------------------------
\* middleware/auth and the protected routes: GET /api/bookings, GET /api/cars
\* ------------------------------------------------------------------------

Ann == "ann@example.com"

Bob == "bob@example.com"

\* The ID tokens Firebase has issued that are still valid, with the claims
\* admin.auth().verifyIdToken resolves to; an anonymous account has no
\* email.  verifyIdToken rejects every other string.
IssuedTokens == {"ann-token", "bob-token", "guest-token"}

DecodedToken(idToken) ==
    CASE idToken = "ann-token" -> [uid |-> "u1", email |-> Ann]
      [] idToken = "bob-token" -> [uid |-> "u2", email |-> Bob]
      [] idToken = "guest-token" -> [uid |-> "u3"]

\* An Authorization header "<scheme> <credentials>".
Authorization(scheme, credentials) == [scheme |-> scheme, credentials |-> credentials]

\* req.headers.authorization?.split("Bearer ")[1] is a non-empty string
HasIdToken(headers) ==
    /\ Has(headers, "authorization")
    /\ headers.authorization.scheme = "Bearer"
    /\ headers.authorization.credentials # ""

IdToken(headers) == headers.authorization.credentials

\* The middleware either answers or hands over to the next handler.
Answer(response) == [next |-> FALSE, response |-> response]

Proceed(request) == [next |-> TRUE, request |-> request]

verifyFirebaseToken(request) ==
    IF ~HasIdToken(request.headers)
    THEN Answer(Status(401, "Unauthorized - No token provided"))
    ELSE IF IdToken(request.headers) \notin IssuedTokens
    THEN Answer(Status(401, "Unauthorized - Invalid token"))
    ELSE Proceed([f \in DOMAIN request \cup {"decoded"} |->
                    IF f = "decoded" THEN DecodedToken(IdToken(request.headers))
                    ELSE request[f]])

\* !query.userEmail
NoUserEmail(query) == ~Has(query, "userEmail") \/ query.userEmail = ""

verifyTokenEmailAnyEmail(request) ==
    IF NoUserEmail(request.query)
    THEN Answer(Status(400, "Email query parameter is required"))
    ELSE Proceed(request)

verifyTokenEmail(request) ==
    IF NoUserEmail(request.query)
    THEN Answer(Status(400, "Email query parameter is required"))
    ELSE IF ~Has(request.decoded, "email") \/ request.query.userEmail # request.decoded.email
    THEN Answer(Status(403, "Forbidden - Email mismatch"))
    ELSE Proceed(request)

\* collection.find(query): the filter is the query string's parameters, each
\* an equality on a field of that name.
Matches(doc, query) == \A f \in DOMAIN query : Has(doc, f) /\ doc[f] = query[f]

Ok(result) == [status |-> 200, body |-> result]

\* getBookingsByUserEmail; findFails: find rejects.
getBookingsByUserEmail(request, bookingDocs, findFails) ==
    IF NoUserEmail(request.query)
    THEN Status(400, "Email query parameter is required")
    ELSE IF findFails
    THEN Status(500, "Failed to fetch bookings")
    ELSE Ok(SelectSeq(bookingDocs, LAMBDA b : Matches(b, request.query)))

\* The key of sort({ dateAdded: -1 }): a document without the field sorts as
\* null, after every date.
DateAddedKey(doc) == IF Has(doc, "dateAdded") THEN doc.dateAdded ELSE -1

\* The arrays sort({ dateAdded: -1 }).toArray() may resolve to: the order of
\* documents of equal dateAdded is not specified.
SortedByDateAdded(docs) ==
    {s \in [1..Cardinality(docs) -> docs] :
        \A i, j \in 1..Cardinality(docs) :
            i < j => s[i] # s[j] /\ DateAddedKey(s[i]) >= DateAddedKey(s[j])}

\* getCarsByUserEmail: the responses it may send; findFails: find rejects.
getCarsByUserEmail(request, carDocs, findFails) ==
    IF NoUserEmail(request.query)
    THEN {Status(400, "Email query parameter is required")}
    ELSE IF findFails
    THEN {Status(500, "Failed to fetch cars")}
    ELSE {Ok(s) : s \in SortedByDateAdded({c \in carDocs : Matches(c, request.query)})}

\* router.get("/", verifyFirebaseToken, verifyTokenEmail, handler): the
\* request as the handler receives it, or the answer of the middleware that
\* stopped it.
Protected(request) ==
    LET checked == verifyFirebaseToken(request)
    IN  IF checked.next THEN verifyTokenEmail(checked.request) ELSE checked

NoFields == [f \in {} |-> Null]

\* The requests the protected routes receive: their headers and their query
\* strings.
GetRequests ==
    {[headers |-> h, query |-> q] :
        h \in {[host |-> "localhost:3000"]}
              \cup {[host |-> "localhost:3000", authorization |-> a] :
                      a \in {Authorization("Basic", "YW5uOnB3"), Authorization("Bearer", "")}
                            \cup {Authorization("Bearer", t) :
                                    t \in IssuedTokens \cup {"expired-token"}}},
        q \in {NoFields, [userEmail |-> ""], [userEmail |-> Ann], [userEmail |-> Bob],
               [userEmail |-> Ann, status |-> "confirmed"]}}

\* GET /api/bookings
HandleGetBookings ==
    /\ Len(log) < MaxCalls
    /\ \E request \in GetRequests, findFails \in BOOLEAN :
          \E checked \in {Protected(request)} :
              \E answer \in {IF checked.next
                             THEN getBookingsByUserEmail(checked.request, bookings, findFails)
                             ELSE checked.response} :
                  /\ req' = request
                  /\ res' = [op |-> "getBookingsByUserEmail", ret |-> answer]
                  /\ log' = Append(log, Entry("getBookingsByUserEmail", request, answer))
    /\ UNCHANGED <<cars, bookings, coupons, now>>

\* GET /api/cars
HandleGetCars ==
    /\ Len(log) < MaxCalls
    /\ \E request \in GetRequests, findFails \in BOOLEAN :
          \E checked \in {Protected(request)} :
              \E answer \in (IF checked.next
                             THEN getCarsByUserEmail(checked.request, cars, findFails)
                             ELSE {checked.response}) :
                  /\ req' = request
                  /\ res' = [op |-> "getCarsByUserEmail", ret |-> answer]
                  /\ log' = Append(log, Entry("getCarsByUserEmail", request, answer))
    /\ UNCHANGED <<cars, bookings, coupons, now>>

AccountsNext ==
    \/ HandleCreateBooking
    \/ HandleGetBookings
    \/ HandleGetCars

\* The server as its users' records see it: bookings are stored and the
\* protected routes are read.
Accounts == ServerInit /\ [][AccountsNext]_vars

\* ------------------------------------------------------------------------
\* controllers/carsController: the public routes of the catalogue
\* ------------------------------------------------------------------------

\* sort({ dateAdded: -1 }).limit(n).toArray(): the arrays it may resolve to,
\* the order of documents of equal dateAdded being unspecified.
RECURSIVE SortedLimited(_, _)
SortedLimited(docs, n) ==
    IF n = 0 \/ docs = {} THEN {<<>>}
    ELSE UNION {{<<d>> \o s : s \in SortedLimited(docs \ {d}, n - 1)} :
                    d \in {c \in docs : \A e \in docs : DateAddedKey(c) >= DateAddedKey(e)}}

\* .limit(6)
RecentLimit == 6

\* getRecentCars: the responses it may send; findFails: find rejects.
getRecentCars(carDocs, findFails) ==
    IF findFails THEN {Status(500, "Failed to fetch recent cars")}
    ELSE {Ok(s) : s \in SortedLimited(carDocs, RecentLimit)}

\* The details a listed car carries besides its rates; a rating of 45 stands
\* for 4.5.
ListingOf(id) ==
    CASE id = Oid(1) -> [carModel |-> "Toyota Corolla", brand |-> "Toyota", type |-> "Sedan",
                         fuelType |-> "Petrol", transmission |-> "Automatic",
                         seats |-> 5, rating |-> 45]
      [] id = Oid(2) -> [carModel |-> "Tesla Model 3", brand |-> "Tesla", type |-> "Sedan",
                         fuelType |-> "Electric", transmission |-> "Automatic",
                         seats |-> 5, rating |-> 49]
      [] id = Oid(3) -> [carModel |-> "Honda Civic", brand |-> "Honda", type |-> "Sedan",
                         fuelType |-> "Diesel", transmission |-> "Automatic",
                         seats |-> 5, rating |-> 42]
      [] id = Oid(5) -> [model |-> "Ford Ranger", brand |-> "Ford", type |-> "Pickup",
                         fuel |-> "Diesel", transmission |-> "Manual",
                         seats |-> 4, rating |-> 40]
      [] id = Oid(9) -> [carModel |-> "Toyota Hilux", brand |-> "Toyota", type |-> "Pickup",
                         fuelType |-> "Diesel", transmission |-> "Manual", seats |-> 4]
      [] OTHER -> NoFields

Listed(car) ==
    [f \in DOMAIN car \cup DOMAIN ListingOf(car._id) |->
        IF f \in DOMAIN car THEN car[f] ELSE ListingOf(car._id)[f]]

\* { $regex: pattern, $options: "i" } on the strings of the model: the
\* values that contain the pattern, letter case ignored.
Containing(pattern) ==
    CASE pattern = "toyota" -> {"Toyota Corolla", "Toyota Hilux", "Toyota"}
      [] pattern = "sedan" -> {"Sedan"}
      [] pattern = "pickup" -> {"Pickup"}
      [] pattern = "diesel" -> {"Diesel"}
      [] pattern = "petrol" -> {"Petrol"}
      [] pattern = "electric" -> {"Electric"}
      [] pattern = "auto" -> {"Automatic"}
      [] OTHER -> {}

\* { [field]: { $regex: pattern, $options: "i" } }
RegexOn(field, pattern) == [op |-> "regex", field |-> field, pattern |-> pattern]

\* { [field]: { $gte: min } } or { [field]: { $lte: max } }
Bound(op, field, bound) == [op |-> op, field |-> field, bound |-> bound]

\* if (query) filter.$or = [carModel, model, brand, type]
TextConditions(params) ==
    IF Has(params, "query")
    THEN <<RegexOn("carModel", params.query), RegexOn("model", params.query),
           RegexOn("brand", params.query), RegexOn("type", params.query)>>
    ELSE <<>>

FuelConditions(params) ==
    IF Has(params, "fuel")
    THEN <<RegexOn("fuelType", params.fuel), RegexOn("fuel", params.fuel)>>
    ELSE <<>>

\* The filter object: $or is a list of conditions, $and a list of price
\* alternatives, each a list of bounds on one field, and the rest are
\* conditions on fields. $or holds the text conditions and, the fuel block
\* running filter.$or = filter.$or || [] and then push, the fuel conditions
\* after them; priceFilter holds the bounds given, on one field.
BuildFilter(params) ==
    [or |-> TextConditions(params) \o FuelConditions(params),
     priceOr |->
        IF Has(params, "minPrice") \/ Has(params, "maxPrice")
        THEN [k \in 1..2 |->
                (IF Has(params, "minPrice")
                 THEN <<Bound("gte", <<"dailyRentalPrice", "price">>[k], params.minPrice)>>
                 ELSE <<>>)
                \o (IF Has(params, "maxPrice")
                    THEN <<Bound("lte", <<"dailyRentalPrice", "price">>[k], params.maxPrice)>>
                    ELSE <<>>)]
        ELSE <<>>,
     fields |->
        (IF Has(params, "transmission")
         THEN <<RegexOn("transmission", params.transmission)>> ELSE <<>>)
        \o (IF Has(params, "seats") THEN <<Bound("gte", "seats", params.seats)>> ELSE <<>>)
        \o (IF Has(params, "rating") THEN <<Bound("gte", "rating", params.rating)>> ELSE <<>>)]

\* One condition on one document; a condition on an absent field fails.
Satisfies(doc, cond) ==
    /\ Has(doc, cond.field)
    /\ CASE cond.op = "regex" -> doc[cond.field] \in Containing(cond.pattern)
         [] cond.op = "gte" -> doc[cond.field] >= cond.bound
         [] cond.op = "lte" -> doc[cond.field] <= cond.bound

\* The document matches the filter: every member of the filter object
\* holds, $or holding when one of its conditions does.
MatchesFilter(doc, filter) ==
    /\ filter.or # <<>> => \E k \in 1..Len(filter.or) : Satisfies(doc, filter.or[k])
    /\ filter.priceOr # <<>> =>
          \E k \in 1..Len(filter.priceOr) :
              \A j \in 1..Len(filter.priceOr[k]) : Satisfies(doc, filter.priceOr[k][j])
    /\ \A k \in 1..Len(filter.fields) : Satisfies(doc, filter.fields[k])

\* The value of a field as a sort key: an absent field sorts as null, before
\* every number and string.
NumberKey(doc, field) == IF Has(doc, field) THEN doc[field] ELSE -1

\* A model name as a sort key: its place in the order of strings.
NameKey(doc, field) ==
    IF ~Has(doc, field) THEN 0
    ELSE CASE doc[field] = "Ford Ranger" -> 1
           [] doc[field] = "Honda Civic" -> 2
           [] doc[field] = "Tesla Model 3" -> 3
           [] doc[field] = "Toyota Corolla" -> 4
           [] doc[field] = "Toyota Hilux" -> 5

\* sortOptions[sort] || { dateAdded: -1 }, as the pair of keys that ascends
\* in the order asked for
SortKeys(doc, sort) ==
    CASE sort = "dateAdded_asc" -> <<NumberKey(doc, "dateAdded"), 0>>
      [] sort = "price_asc" -> <<NumberKey(doc, "dailyRentalPrice"), NumberKey(doc, "price")>>
      [] sort = "price_desc" -> <<-NumberKey(doc, "dailyRentalPrice"), -NumberKey(doc, "price")>>
      [] sort = "rating_desc" -> <<-NumberKey(doc, "rating"), 0>>
      [] sort = "model_asc" -> <<NameKey(doc, "carModel"), NameKey(doc, "model")>>
      [] sort = "model_desc" -> <<-NameKey(doc, "carModel"), -NameKey(doc, "model")>>
      [] OTHER -> <<-NumberKey(doc, "dateAdded"), 0>>

\* find(filter).sort(sortQuery).limit(n).toArray(): the arrays it may
\* resolve to, the order of documents of equal keys being unspecified; Leq
\* orders the pairs of keys, and a document no other precedes may come first.
RECURSIVE SortedFirst(_, _, _)
SortedFirst(docs, sort, n) ==
    IF n = 0 \/ docs = {} THEN {<<>>}
    ELSE LET Leq(a, b) == a[1] < b[1] \/ (a[1] = b[1] /\ a[2] <= b[2])
         IN  UNION {{<<d>> \o s : s \in SortedFirst(docs \ {d}, sort, n - 1)} :
                      d \in {c \in docs : \A e \in docs :
                                Leq(SortKeys(c, sort), SortKeys(e, sort))}}

\* const { sort = "dateAdded_desc", page = 1, limit = 12 } = req.query,
\* parseInt applied to page and limit
PageNum(params) == IF Has(params, "page") THEN params.page ELSE 1

LimitNum(params) == IF Has(params, "limit") THEN params.limit ELSE 12

\* The handler once the filter is built: sort, skip, limit and
\* res.send({ cars, total, totalPages, currentPage, limit }); a negative skip
\* makes the driver throw.
SearchWith(matching, params, skip) ==
    IF skip < 0 THEN {Status(500, "Internal server error")}
    ELSE {Ok([cars |-> SubSeq(s, skip + 1, Len(s)),
              total |-> Cardinality(matching),
              totalPages |-> MathCeil(Cardinality(matching), LimitNum(params)),
              currentPage |-> PageNum(params), limit |-> LimitNum(params)]) :
            s \in SortedFirst(matching,
                              IF Has(params, "sort") THEN params.sort ELSE "dateAdded_desc",
                              skip + LimitNum(params))}

\* searchCars: the responses it may send to a request without lat, lng and
\* radius, its numbers given as parseFloat and parseInt read them;
\* findFails: countDocuments or find rejects.
searchCars(params, carDocs, findFails) ==
    IF findFails THEN {Status(500, "Internal server error")}
    ELSE SearchWith({c \in carDocs : MatchesFilter(c, BuildFilter(params))},
                    params, (PageNum(params) - 1) * LimitNum(params))

\* The query strings of the search requests the server receives.
SearchParams ==
    {NoFields,
     [query |-> "toyota"], [fuel |-> "diesel"],
     [query |-> "toyota", fuel |-> "diesel"],
     [query |-> "sedan", fuel |-> "petrol", sort |-> "price_asc"],
     [query |-> "pickup", fuel |-> "diesel", sort |-> "model_desc", limit |-> 1, page |-> 2],
     [query |-> "toyota", fuel |-> "electric"],
     [query |-> "sedan", minPrice |-> 300, maxPrice |-> 5000, sort |-> "price_desc"],
     [fuel |-> "diesel", transmission |-> "auto", sort |-> "model_asc"],
     [query |-> "sedan", seats |-> 5, rating |-> 45, sort |-> "rating_desc"],
     [minPrice |-> 4000, sort |-> "dateAdded_asc", limit |-> 2],
     [query |-> "toyota", page |-> 0]}

\* GET /api/cars/search
HandleSearchCars ==
    /\ Len(log) < MaxCalls
    /\ \E params \in SearchParams, findFails \in BOOLEAN :
          \E answer \in searchCars(params, cars, findFails) :
              /\ req' = params
              /\ res' = [op |-> "searchCars", ret |-> answer]
              /\ log' = Append(log, Entry("searchCars", params, answer))
    /\ UNCHANGED <<cars, bookings, coupons, now>>

\* The cars collection as the catalogue's routes find it.
CarCollections ==
    {{Listed(c) : c \in CarDocs},
     {Listed(c) : c \in {d \in CarDocs : d._id \in {Oid(1), Oid(2), Oid(5), Oid(9)}}}}

CatalogueInit ==
    /\ cars \in CarCollections
    /\ coupons = CouponDocs
    /\ bookings = <<>>
    /\ now = Clock
    /\ req = [none |-> TRUE]
    /\ res = [op |-> "none"]
    /\ log = <<>>

\* GET /api/cars/recently-added
HandleGetRecentCars ==
    /\ Len(log) < MaxCalls
    /\ \E findFails \in BOOLEAN :
          \E answer \in getRecentCars(cars, findFails) :
              /\ req' = NoFields
              /\ res' = [op |-> "getRecentCars", ret |-> answer]
              /\ log' = Append(log, Entry("getRecentCars", NoFields, answer))
    /\ UNCHANGED <<cars, bookings, coupons, now>>

CatalogueNext ==
    \/ HandleGetRecentCars
    \/ HandleSearchCars

\* The server as a visitor of the catalogue sees it.
Catalogue == CatalogueInit /\ [][CatalogueNext]_vars

\* ------------------------------------------------------------------------
\* controllers/bookingsController: updateBooking
\* ------------------------------------------------------------------------

\* The _id insertOne gives the k-th document stored in the bookings
\* collection.
BookingId(k) == Oid(k)

\* bookingsCollection.updateOne({ _id }, { $set: bookingData }): the
\* documents of the collection afterwards
UpdateOneSet(bookingDocs, id, bookingData) ==
    [k \in 1..Len(bookingDocs) |->
        IF BookingId(k) = id
        THEN [f \in DOMAIN bookingDocs[k] \cup DOMAIN bookingData |->
                IF f \in DOMAIN bookingData THEN bookingData[f] ELSE bookingDocs[k][f]]
        ELSE bookingDocs[k]]

\* The UpdateResult the driver resolves to.
UpdateResult(bookingDocs, after, id) ==
    [acknowledged |-> TRUE,
     matchedCount |-> IF \E k \in 1..Len(bookingDocs) : BookingId(k) = id THEN 1 ELSE 0,
     modifiedCount |-> IF after # bookingDocs THEN 1 ELSE 0]

\* What the handler leaves behind: the collection and its response.
Updated(bookingDocs, response) == [bookings |-> bookingDocs, response |-> response]

\* PATCH /api/bookings/:id with the body `bookingData`; new ObjectId(id)
\* throws on a string that is no ObjectId; updateFails: updateOne rejects.
updateBooking(id, bookingData, bookingDocs, updateFails) ==
    IF ~IsObjectId(id) \/ updateFails
    THEN Updated(bookingDocs, Status(500, "Failed to update booking"))
    ELSE LET after == UpdateOneSet(bookingDocs, id, bookingData)
         IN  Updated(after, Ok(UpdateResult(bookingDocs, after, id)))

\* PATCH /api/bookings/:id, over the ids and bodies of the update requests
\* the server receives
HandleUpdateBooking ==
    /\ Len(log) < MaxCalls
    /\ \E id \in {BookingId(1), BookingId(2), BookingId(99), [text |-> "YOUR_BOOKING_ID"]},
          bookingData \in {[status |-> "confirmed"], [status |-> "canceled"],
                           [startDate |-> [t |-> DateOnly(FirstDay + 1)],
                            endDate |-> [t |-> DateOnly(FirstDay + 4)]]},
          updateFails \in BOOLEAN :
          \E out \in {updateBooking(id, bookingData, bookings, updateFails)} :
              /\ bookings' = out.bookings
              /\ req' = bookingData
              /\ res' = [op |-> "updateBooking", ret |-> out.response]
              /\ log' = Append(log, Entry("updateBooking",
                                          [id |-> id, body |-> bookingData], out.response))
    /\ UNCHANGED <<cars, coupons, now>>

RentalsNext ==
    \/ HandleQuote
    \/ HandleCreateBooking
    \/ HandleUpdateBooking

\* The server as its rentals see it: quotes are asked for, bookings are
\* stored and updated.
Rentals == ServerInit /\ [][RentalsNext]_vars

\* ------------------------------------------------------------------------
\* Properties
\* ------------------------------------------------------------------------

\* The request's dates, when both parse.
DatesValid ==
    /\ Has(req, "startDate") /\ Has(req, "endDate")
    /\ IsValidDate(req.startDate) /\ IsValidDate(req.endDate)

Returns(op) == res.op = op /\ ~res.ret.threw

\* The positions of the length rules of the list that `nights` qualifies for.
Qualifying(rules, nights) ==
    {k \in 1..Len(rules) : rules[k].type = "length" /\ rules[k].minDays <= nights}

\* c is the amount x / y rounded to the nearest whole number, a tie going up
\* (y > 0).
IsRounded(c, x, y) == 2 * y * c <= 2 * x + y /\ 2 * x + y < 2 * y * (c + 1)

\* The discount rule r gives on `subtotal`, rounded to the cent, is c.
IsLengthDiscount(c, r, subtotal) ==
    IF Truthy(r, "pct") THEN IsRounded(c, subtotal * Abs(r.pct), 100)
    ELSE c = r.flat

\* C1: calculateRentalPrice applies at most one length rule: among the
\* length rules with minDays <= nights the one with the largest minDays
\* determines lengthDiscount and appliedLengthRule, and when no length rule
\* qualifies lengthDiscount is 0 and appliedLengthRule is null.
C1_LargestQualifyingLengthRule ==
    Returns("calculateRentalPrice") =>
        LET rules == CarPriceRules(ArgCar)
            ret   == res.ret
            Q     == Qualifying(rules, ret.nights)
        IN  IF Q = {}
            THEN ret.lengthDiscount = 0 /\ ret.appliedLengthRule = Null
            ELSE \E k \in Q :
                    /\ \A j \in Q : rules[j].minDays <= rules[k].minDays
                    /\ ret.appliedLengthRule # Null
                    /\ ret.appliedLengthRule.name = rules[k].name
                    /\ IsLengthDiscount(ret.lengthDiscount, rules[k], ret.subtotal)

\* C1 witness: several length rules qualify and the one applied is not the
\* first of them in the list.
C1_Witness ==
    /\ Returns("calculateRentalPrice")
    /\ Cardinality(Qualifying(CarPriceRules(ArgCar), res.ret.nights)) = 3
    /\ res.ret.appliedLengthRule # Null
    /\ res.ret.appliedLengthRule.name = "Weekly Discount"
    /\ res.ret.lengthDiscount > 0

\* The elements of the list that have the type, in order.
OfType(list, type) == SelectSeq(list, LAMBDA r : r.type = type)

InSomeSeason(rules, date) ==
    \E k \in 1..Len(rules) :
        /\ rules[k].type = "season"
        /\ rules[k].start <= date /\ date <= rules[k].end

FriSatSun(date) == GetDay(date) \in {5, 6, 0}

MatchingSeasons(rules, date) ==
    SelectSeq(rules, LAMBDA r : r.type = "season" /\ r.start <= date /\ date <= r.end)

Adjustment(r) == IF Truthy(r, "pct") THEN r.pct ELSE r.flat

\* C2: for a date inside a season window that is a Friday, Saturday or
\* Sunday, applyPriceRules applies every matching season adjustment and
\* exactly one weekend adjustment, that of the first weekend rule of the list.
C2_OneWeekendRule ==
    (/\ res.op = "applyPriceRules"
     /\ FriSatSun(req.startDate.t)
     /\ InSomeSeason(CarPriceRules(ArgCar), req.startDate.t)
     /\ OfType(CarPriceRules(ArgCar), "weekend") # <<>>)
    => LET rules    == CarPriceRules(ArgCar)
           date     == req.startDate.t
           first    == Head(OfType(rules, "weekend"))
           seasons  == MatchingSeasons(rules, date)
           applied  == res.ret.appliedRules
           weekends == OfType(applied, "weekend")
           seasonal == OfType(applied, "season")
       IN  /\ Len(weekends) = 1
           /\ weekends[1].adjustment = Adjustment(first)
           /\ applied[Len(applied)].type = "weekend"
           /\ Len(seasonal) = Len(seasons)
           /\ \A k \in 1..Len(seasons) :
                 /\ seasonal[k].name = seasons[k].name
                 /\ seasonal[k].adjustment = Adjustment(seasons[k])
           /\ res.ret.price =
                 MathRound(WeekendApply(
                     SeasonLoop([price |-> Whole(BasePrice(ArgCar)),
                                 appliedRules |-> <<>>], seasons, date),
                     first).price)

\* C2 witness: a weekend night inside two season windows, priced under a rule
\* list that holds two weekend rules.
C2_Witness ==
    /\ res.op = "applyPriceRules"
    /\ FriSatSun(req.startDate.t)
    /\ Len(MatchingSeasons(CarPriceRules(ArgCar), req.startDate.t)) = 2
    /\ Len(OfType(CarPriceRules(ArgCar), "weekend")) = 2
    /\ Len(res.ret.appliedRules) = 3

\* C3 (as claimed): applyCouponDiscount returns min(d, subtotal), d being
\* subtotal * pct / 100 or flat, and so every quote of generateQuote has
\* couponDiscount <= subtotal - lengthDiscount.
C3_CouponDiscountAtMostSubtotal ==
    /\ (Returns("applyCouponDiscount") /\ ArgCoupon # Null) =>
          LET s == ArgRental.subtotal - ArgRental.lengthDiscount
              v == res.ret.value
          IN  IF Truthy(ArgCoupon, "pct")
              THEN IF s * ArgCoupon.pct <= s * 100
                   THEN v.n * 100 = s * ArgCoupon.pct * v.d
                   ELSE v.n = s * v.d
              ELSE IF ArgCoupon.flat <= s THEN v.n = ArgCoupon.flat * v.d
                   ELSE v.n = s * v.d
    /\ Returns("generateQuote") =>
          res.ret.couponDiscount <= res.ret.subtotal - res.ret.lengthDiscount

\* C4 (as claimed): with a base rate >= 0, season and weekend surcharges
\* >= 0 and a coupon of 0 <= pct <= 100 or flat >= 0, the quote's amount
\* after discounts, its taxes and its total are never negative.
C4_NoNegativeTotal ==
    Returns("generateQuote") =>
        /\ res.ret.priceBreakdown.afterCouponDiscount >= 0
        /\ res.ret.taxes >= 0
        /\ res.ret.total >= 0

\* C5: nights is the ceiling of (end - start) in days, so a range of less
\* than one day is one night, and the quote reports the same value.
C5_NightsIsCeiling ==
    (/\ res.op \in {"calculateRentalPrice", "generateQuote"}
     /\ req.endDate.t > req.startDate.t)
    => /\ ~res.ret.threw
       /\ (res.ret.nights - 1) * HoursPerDay < req.endDate.t - req.startDate.t
       /\ req.endDate.t - req.startDate.t <= res.ret.nights * HoursPerDay

\* C5 witness: a quote for a range of three hours counts one night.
C5_Witness ==
    /\ Returns("generateQuote")
    /\ req.endDate.t - req.startDate.t = 3
    /\ res.ret.nights = 1

\* C6: a range whose end is not strictly after its start yields no quote:
\* calculateRentalPrice and generateQuote throw the invalid range error and
\* the quote endpoint answers 400.
C6_InvalidRangeRejected ==
    (DatesValid /\ req.endDate.t <= req.startDate.t) =>
        /\ res.op \in {"calculateRentalPrice", "generateQuote"} =>
              /\ res.ret.threw
              /\ res.ret.message = Msg("End date must be after start date")
        /\ res.op = "getBookingQuote" =>
              /\ res.ret.status = 400
              /\ ~Has(res.ret.body, "quote")

\* C6 witness: the endpoint refuses a future range that ends when it starts.
C6_Witness ==
    /\ res.op = "getBookingQuote"
    /\ Has(req, "carId") /\ DatesValid
    /\ req.startDate.t >= now
    /\ req.endDate.t = req.startDate.t
    /\ res.ret = Status(400, "End date must be after start date")

MinDaysCase ==
    /\ Callable
    /\ ArgCoupon # Null
    /\ Truthy(ArgCoupon, "minDays")
    /\ req.endDate.t > req.startDate.t
    /\ ArgCoupon.minDays > Nights(req.startDate.t, req.endDate.t)

\* C8: with a coupon whose minDays exceeds the nights generateQuote still
\* returns a quote: couponDiscount 0, the minimum-days message in
\* appliedRules.coupon.error, and subtotal, lengthDiscount, taxes and total
\* those of the quote without a coupon.
C8_MinDaysNotMetIsNotFatal ==
    (res.op = "generateQuote" /\ MinDaysCase) =>
        LET plain == generateQuote(ArgCar, req.startDate.t, req.endDate.t, Null,
                                   CarPriceRules(ArgCar))
        IN  /\ ~res.ret.threw
            /\ res.ret.couponDiscount = 0
            /\ res.ret.appliedRules.coupon.discount = 0
            /\ res.ret.appliedRules.coupon.error =
                  [text |-> "Coupon requires minimum ${minDays} days rental",
                   minDays |-> ArgCoupon.minDays]
            /\ res.ret.subtotal = plain.subtotal
            /\ res.ret.lengthDiscount = plain.lengthDiscount
            /\ res.ret.taxes = plain.taxes
            /\ res.ret.total = plain.total

\* C8 witness: a three night quote with a coupon that asks for seven.
C8_Witness ==
    /\ Returns("generateQuote")
    /\ MinDaysCase
    /\ res.ret.nights = 3
    /\ ArgCoupon.minDays = 7
    /\ res.ret.total > 0

\* C9: isCouponValid reports the first failure in the order active flag,
\* expiry, usage limit (a limit that is set, which the source tests by its
\* truth value), and is valid with no reason otherwise.
C9_ValidationOrder ==
    res.op = "isCouponValid" =>
        LET c == ArgCoupon
        IN  IF ~c.active
            THEN res.ret = [valid |-> FALSE, reason |-> Msg("Coupon is no longer active")]
            ELSE IF now > c.expiresAt
            THEN res.ret = [valid |-> FALSE, reason |-> Msg("Coupon has expired")]
            ELSE IF Truthy(c, "usageLimit") /\ c.usageCount >= c.usageLimit
            THEN res.ret = [valid |-> FALSE, reason |-> Msg("Coupon usage limit reached")]
            ELSE res.ret.valid /\ ~Has(res.ret, "reason")

\* C9 witness: a coupon that is inactive, expired and over its limit is
\* reported as no longer active.
C9_Witness ==
    /\ res.op = "isCouponValid"
    /\ ~ArgCoupon.active
    /\ now > ArgCoupon.expiresAt
    /\ ArgCoupon.usageCount >= ArgCoupon.usageLimit
    /\ res.ret.reason = Msg("Coupon is no longer active")

\* The coupon record the claim calls unusable: usageLimit and usageCount are
\* numbers >= 0 and it is inactive, expired or has usageCount >= usageLimit.
Unusable(c) ==
    /\ Has(c, "usageLimit") /\ c.usageLimit >= 0 /\ c.usageCount >= 0
    /\ (~c.active \/ now > c.expiresAt \/ c.usageCount >= c.usageLimit)

\* C10 (as claimed): for a coupon record that is inactive, expired or has
\* usageCount >= usageLimit, isCouponValid returns valid = false and the
\* quote endpoint applies no discount from it.
C10_UnusableCouponNeverApplied ==
    (ArgCoupon # Null /\ Unusable(ArgCoupon)) =>
        /\ res.op = "isCouponValid" => ~res.ret.valid
        /\ (res.op = "getBookingQuote" /\ res.ret.status = 200) =>
              /\ res.ret.body.quote.couponDiscount = 0
              /\ res.ret.body.quote.appliedRules.coupon = Null

\* The calendar day of `date` lies in the window of the season rule r, both
\* bounds included.
InWindowByDay(r, date) ==
    IsoDate(r.start) <= IsoDate(date) /\ IsoDate(date) <= IsoDate(r.end)

\* The season rule of the name is among the applied rules.
SeasonListed(applied, name) ==
    \E j \in 1..Len(applied) : applied[j].type = "season" /\ applied[j].name = name

\* C11 (as claimed): a night receives a season rule's adjustment if and only
\* if its calendar date lies in [start, end], both bounds included, whatever
\* the time of day of the rental's start.
C11_SeasonBoundsInclusive ==
    /\ res.op = "applyPriceRules" =>
          \A k \in 1..Len(CarPriceRules(ArgCar)) :
              CarPriceRules(ArgCar)[k].type = "season" =>
                  (SeasonListed(res.ret.appliedRules, CarPriceRules(ArgCar)[k].name)
                   <=> InWindowByDay(CarPriceRules(ArgCar)[k], req.startDate.t))
    /\ Returns("calculateRentalPrice") =>
          \A i \in 1..res.ret.nights :
              \A k \in 1..Len(CarPriceRules(ArgCar)) :
                  CarPriceRules(ArgCar)[k].type = "season" =>
                      (SeasonListed(res.ret.dailyBreakdown[i].appliedRules,
                                    CarPriceRules(ArgCar)[k].name)
                       <=> InWindowByDay(CarPriceRules(ArgCar)[k],
                                         CurrentDate(req.startDate.t, i - 1)))

\* The bookings that conflict with the request by their times: same car,
\* status confirmed or pending, existingStart <= newEnd and existingEnd >=
\* newStart.
Overlapping ==
    SelectSeq(bookings,
              LAMBDA b : /\ b.carId = req.carId
                         /\ b.status \in {"confirmed", "pending"}
                         /\ b.startDate.t <= req.endDate.t
                         /\ b.endDate.t >= req.startDate.t)

\* C12 (as claimed): the quote endpoint reports unavailable = true exactly
\* when a confirmed or pending booking of the same car overlaps the candidate
\* range, bounds included, and conflictingDates lists exactly the ranges of
\* those bookings.
C12_UnavailableIffOverlap ==
    (res.op = "getBookingQuote" /\ res.ret.status = 200) =>
        /\ res.ret.body.unavailable = (Len(Overlapping) > 0)
        /\ res.ret.body.conflictingDates =
              [k \in 1..Len(Overlapping) |->
                  [startDate |-> Overlapping[k].startDate,
                   endDate |-> Overlapping[k].endDate]]

\* The entries of the log that are calls of generateQuote.
QuoteCalls == {k \in 1..Len(log) : log[k].op = "generateQuote"}

QuoteOps == {"getBookingQuote", "generateQuote"}

InSomeWindowByDay(rules, date) ==
    \E k \in 1..Len(rules) : rules[k].type = "season" /\ InWindowByDay(rules[k], date)

\* The price x with the adjustment of rule r, to the cent.
Adjusted(x, r) ==
    IF Truthy(r, "pct") THEN MathRound(TimesPct(Whole(x), r.pct)) ELSE x + r.flat

\* C15: with a weekend rule in the rule list a night carries the weekend
\* adjustment if and only if it is a Friday, Saturday or Sunday; a Monday to
\* Thursday night outside every season window costs exactly the base rate;
\* and a weekend rule that fired is listed in appliedRules.seasonal.
C15_WeekendNights ==
    (Returns("generateQuote") /\ OfType(CarPriceRules(ArgCar), "weekend") # <<>>) =>
        LET rules == CarPriceRules(ArgCar)
            first == Head(OfType(rules, "weekend"))
        IN  \A i \in 1..res.ret.nights :
                LET night == res.ret.dailyBreakdown[i]
                    date  == CurrentDate(req.startDate.t, i - 1)
                    fired == OfType(night.appliedRules, "weekend")
                IN  /\ (fired # <<>>) <=> FriSatSun(date)
                    /\ FriSatSun(date) =>
                          /\ fired[1].adjustment = Adjustment(first)
                          /\ OfType(night.appliedRules, "season") = <<>> =>
                                night.price = Adjusted(BasePrice(ArgCar), first)
                          /\ \E k \in 1..Len(res.ret.appliedRules.seasonal) :
                                /\ res.ret.appliedRules.seasonal[k].type = "weekend"
                                /\ res.ret.appliedRules.seasonal[k].name = fired[1].name
                    /\ (~FriSatSun(date) /\ ~InSomeWindowByDay(rules, date)) =>
                          night.price = BasePrice(ArgCar)

\* C15 witness: base 100.00 under the default rules from a Saturday for
\* three nights: 115.00, 115.00 and 100.00, the surcharge listed.
C15_Witness ==
    /\ Returns("generateQuote")
    /\ BasePrice(ArgCar) = 10000
    /\ CarPriceRules(ArgCar) = DEFAULT_PRICE_RULES
    /\ GetDay(req.startDate.t) = 6
    /\ res.ret.nights = 3
    /\ res.ret.dailyBreakdown[1].price = 11500
    /\ res.ret.dailyBreakdown[2].price = 11500
    /\ res.ret.dailyBreakdown[3].price = 10000
    /\ res.ret.appliedRules.seasonal =
          <<[type |-> "weekend", name |-> "Weekend Surcharge", adjustment |-> 15]>>

\* The rule list with the sign of every percentage length rule reversed.
SignReversed(rules) ==
    [k \in 1..Len(rules) |->
        IF rules[k].type = "length" /\ Truthy(rules[k], "pct")
        THEN [rules[k] EXCEPT !.pct = -rules[k].pct]
        ELSE rules[k]]

\* The length rule of the name carries a percentage.
IsPercentageRule(rules, name) ==
    \E k \in 1..Len(rules) :
        rules[k].type = "length" /\ rules[k].name = name /\ Truthy(rules[k], "pct")

\* C16: a percentage length rule gives the discount subtotal * |pct| / 100
\* rounded to the cent, which is subtracted whatever the sign of pct, and
\* under the default rules a stay of 7 to 29 nights gets 10% of its subtotal.
C16_PercentageLengthDiscount ==
    Returns("generateQuote") =>
        LET rules   == CarPriceRules(ArgCar)
            applied == res.ret.appliedRules.length
        IN  /\ (applied # Null /\ IsPercentageRule(rules, applied.name)) =>
                  /\ IsRounded(res.ret.lengthDiscount,
                               res.ret.subtotal * Abs(applied.adjustment), 100)
                  /\ res.ret.priceBreakdown.afterLengthDiscount =
                        res.ret.subtotal - res.ret.lengthDiscount
            /\ generateQuote(ArgCar, req.startDate.t, req.endDate.t, ArgCoupon,
                             SignReversed(rules)).lengthDiscount = res.ret.lengthDiscount
            /\ (rules = DEFAULT_PRICE_RULES /\ res.ret.nights \in 7..29) =>
                  /\ applied # Null
                  /\ IsRounded(res.ret.lengthDiscount, res.ret.subtotal * 10, 100)

\* C16 witness: base 50.00, 8 nights without season or weekend rules and a
\* weekly rule of pct -10: subtotal 400.00, lengthDiscount 40.00.
C16_Witness ==
    /\ Returns("generateQuote")
    /\ BasePrice(ArgCar) = 5000
    /\ res.ret.nights = 8
    /\ res.ret.appliedRules.length # Null
    /\ res.ret.appliedRules.length.adjustment = -10
    /\ res.ret.subtotal = 40000
    /\ res.ret.lengthDiscount = 4000
    /\ res.ret.priceBreakdown.afterLengthDiscount = 36000

\* The sum of the prices of the first n entries of a daily breakdown.
RECURSIVE SumOfPrices(_, _)
SumOfPrices(daily, n) == IF n = 0 THEN 0 ELSE daily[n].price + SumOfPrices(daily, n - 1)

\* C17: dailyBreakdown has exactly `nights` entries, one per consecutive
\* calendar day from the start date on, subtotal is the sum of their prices,
\* and when no season or weekend rule fires subtotal = base rate * nights.
C17_DailyBreakdown ==
    Returns("generateQuote") =>
        LET daily == res.ret.dailyBreakdown
        IN  /\ Len(daily) = res.ret.nights
            /\ \A i \in 1..Len(daily) : daily[i].date = IsoDate(req.startDate.t) + i - 1
            /\ res.ret.subtotal = SumOfPrices(daily, Len(daily))
            /\ (\A i \in 1..Len(daily) : daily[i].appliedRules = <<>>) =>
                  res.ret.subtotal = BasePrice(ArgCar) * res.ret.nights

\* C17 witness: base 100.00, 5 nights from 10:00 to 10:00, no rule fires and
\* no coupon: subtotal 500.00, taxes 50.00, total 550.00.
C17_Witness ==
    /\ Returns("generateQuote")
    /\ BasePrice(ArgCar) = 10000
    /\ req.startDate.t % HoursPerDay = 10
    /\ ArgCoupon = Null
    /\ Len(res.ret.dailyBreakdown) = 5
    /\ res.ret.appliedRules.seasonal = <<>>
    /\ res.ret.subtotal = 50000
    /\ res.ret.taxes = 5000
    /\ res.ret.total = 55000

\* The request names a coupon code that matches no stored coupon or a coupon
\* the validator rejects.
CouponRefused ==
    /\ Has(req, "coupon")
    /\ (ArgCoupon = Null \/ ~isCouponValid(ArgCoupon, now).valid)

\* The answer to the request at hand with its coupon left out, the database
\* working.
PlainAnswer == getBookingQuote(Without(req, "coupon"), cars, bookings, coupons, now, FALSE)

\* C18: a quote request whose coupon code matches no stored coupon, or a
\* coupon isCouponValid rejects, is answered with a quote all the same:
\* couponDiscount 0, the total of the request without a coupon, and
\* couponError 'Invalid coupon code' or the validator's reason.
C18_RefusedCouponIsNotFatal ==
    (/\ res.op = "getBookingQuote"
     /\ CouponRefused
     /\ PlainAnswer.status = 200
     /\ res.ret.status # 500)
    => /\ res.ret.status = 200
       /\ res.ret.body.quote.couponDiscount = 0
       /\ res.ret.body.quote.total = PlainAnswer.body.quote.total
       /\ res.ret.body.couponError =
             IF ArgCoupon = Null THEN Msg("Invalid coupon code")
             ELSE isCouponValid(ArgCoupon, now).reason

\* C18 witness: the code INVALID123 on a five night request is answered
\* with a quote and the couponError 'Invalid coupon code'.
C18_Witness ==
    /\ res.op = "getBookingQuote"
    /\ Has(req, "coupon") /\ req.coupon = "INVALID123"
    /\ res.ret.status = 200
    /\ res.ret.body.quote.nights = 5
    /\ res.ret.body.quote.total > 0
    /\ res.ret.body.quote.couponDiscount = 0
    /\ res.ret.body.couponError = Msg("Invalid coupon code")

\* The step serves a createBooking request that stores its booking.
StoresBooking ==
    /\ Len(log') = Len(log) + 1
    /\ log'[Len(log')].op = "createBooking"
    /\ bookings' = Append(bookings, log'[Len(log')].args)

\* C19 (as claimed): every createBooking that stores a booking increments
\* the bookingCount of the booking's car by exactly 1 and leaves the other
\* cars' counts alone.
C19_BookingCountFollowsBookings ==
    [][StoresBooking =>
          \A car \in cars :
              \E after \in cars' :
                  /\ after._id = car._id
                  /\ BookingCount(after) =
                        BookingCount(car)
                        + (IF Has(log'[Len(log')].args, "carId")
                              /\ log'[Len(log')].args.carId = car._id
                           THEN 1 ELSE 0)]_vars

\* The positions of the log that hold a request to a protected route.
ProtectedCalls ==
    {k \in 1..Len(log) : log[k].op \in {"getBookingsByUserEmail", "getCarsByUserEmail"}}

\* The request carries a bearer token that Firebase verifies.
TokenVerified(request) ==
    HasIdToken(request.headers) /\ IdToken(request.headers) \in IssuedTokens

\* The email of the user the request's token authenticates is `email`.
AuthenticatedAs(request, email) ==
    /\ TokenVerified(request)
    /\ Has(DecodedToken(IdToken(request.headers)), "email")
    /\ DecodedToken(IdToken(request.headers)).email = email

\* The response is an error object of that status: no record is sent.
Refused(response, code) == response.status = code /\ DOMAIN response.body = {"error"}

\* C20: a request to GET /api/bookings or GET /api/cars is answered with
\* records only when its bearer token was verified and its userEmail
\* parameter equals the token's email, and then every record sent has that
\* email as its userEmail; without a verified token the answer is 401, with
\* a userEmail that is given and differs from the token's email it is 403,
\* and neither carries a record.
C20_OwnRecordsOnly ==
    \A k \in ProtectedCalls :
        /\ ~TokenVerified(log[k].args) => Refused(log[k].ret, 401)
        /\ (/\ TokenVerified(log[k].args)
            /\ ~NoUserEmail(log[k].args.query)
            /\ ~AuthenticatedAs(log[k].args, log[k].args.query.userEmail))
               => Refused(log[k].ret, 403)
        /\ log[k].ret.status = 200 =>
              /\ Has(log[k].args.query, "userEmail")
              /\ AuthenticatedAs(log[k].args, log[k].args.query.userEmail)
              /\ \A i \in 1..Len(log[k].ret.body) :
                    /\ Has(log[k].ret.body[i], "userEmail")
                    /\ AuthenticatedAs(log[k].args, log[k].ret.body[i].userEmail)

\* A booking was stored for Ann, then Ann asked for her bookings and
\* received the three that are hers, the collection holding one of Bob's.
C20_Witness ==
    /\ Len(log) = 2
    /\ log[1].op = "createBooking" /\ log[1].ret.status = 201
    /\ log[2].op = "getBookingsByUserEmail"
    /\ log[2].ret.status = 200
    /\ Len(log[2].ret.body) = 3
    /\ \E i \in 1..Len(bookings) : Has(bookings[i], "userEmail") /\ bookings[i].userEmail = Bob

\* The positions of the log that hold an answered request to
\* GET /api/cars/recently-added.
RecentCalls == {k \in 1..Len(log) : log[k].op = "getRecentCars" /\ log[k].ret.status = 200}

\* The array lists `n` distinct cars of the collection, newest first, and no
\* car left out was added later than a car listed.
MostRecent(list, docs, n) ==
    /\ Len(list) = n
    /\ \A i \in 1..Len(list) : list[i] \in docs
    /\ \A i, j \in 1..Len(list) :
          i < j => list[i] # list[j] /\ DateAddedKey(list[i]) >= DateAddedKey(list[j])
    /\ \A d \in docs :
          (\A i \in 1..Len(list) : list[i] # d)
             => \A i \in 1..Len(list) : DateAddedKey(list[i]) >= DateAddedKey(d)

\* C21: GET /api/cars/recently-added answers with the 8 most recently added
\* cars, newest first, whenever the collection holds at least 8 cars.
C21_EightMostRecent ==
    \A k \in RecentCalls :
        Cardinality(cars) >= 8 => MostRecent(log[k].ret.body, cars, 8)

\* What the route does answer with: the most recently added cars, newest
\* first, 6 of them or the whole collection when it holds fewer.
C21_SixMostRecent ==
    \A k \in RecentCalls :
        MostRecent(log[k].ret.body, cars,
                   IF Cardinality(cars) >= RecentLimit THEN RecentLimit ELSE Cardinality(cars))

\* The amount n / d after the adjustments of the rules of the list, in
\* order, each on top of the result before it: n / d again, as <<n, d>>.
RECURSIVE Stacked(_, _, _)
Stacked(n, d, rules) ==
    IF rules = <<>> THEN <<n, d>>
    ELSE IF Truthy(Head(rules), "pct")
    THEN Stacked(n * (100 + Head(rules).pct), d * 100, Tail(rules))
    ELSE IF Truthy(Head(rules), "flat")
    THEN Stacked(n + Head(rules).flat * d, d, Tail(rules))
    ELSE Stacked(n, d, Tail(rules))

\* The weekend rule that applies on the date: the first of the list on a
\* Friday, Saturday or Sunday, none otherwise.
WeekendPart(rules, date) ==
    IF FriSatSun(date) /\ OfType(rules, "weekend") # <<>>
    THEN <<Head(OfType(rules, "weekend"))>>
    ELSE <<>>

\* The unrounded price of the night: the matching season rules in list
\* order, then the weekend rule.
NightAmount(base, rules, date) ==
    Stacked(base, 1, MatchingSeasons(rules, date) \o WeekendPart(rules, date))

\* C22: the price applyPriceRules returns is the base rate adjusted by every
\* matching season rule in list order (a percentage multiplies by
\* 1 + pct/100, a flat amount is added), each on top of the result before
\* it, then by the weekend adjustment wherever the weekend rule stands in
\* the list, rounded once at the end to the cent.
C22_SeasonsThenWeekendRoundedOnce ==
    res.op = "applyPriceRules"
       => \E amount \in {NightAmount(BasePrice(ArgCar), CarPriceRules(ArgCar), req.startDate.t)} :
              IsRounded(res.ret.price, amount[1], amount[2])

\* C22 witness: a Saturday inside two season windows, priced under a list
\* whose weekend rule stands before its season rules: 41.41 + 2.50 = 43.91,
\* times 1.20 = 52.692, times 1.15 = 60.5958, returned as 60.60.
C22_Witness ==
    /\ res.op = "applyPriceRules"
    /\ CarPriceRules(ArgCar) = WeekendFirst
    /\ CarPriceRules(ArgCar)[1].type = "weekend"
    /\ Len(res.ret.appliedRules) = 3
    /\ res.ret.appliedRules[3].type = "weekend"
    /\ res.ret.price = 6060

\* The rules of the list that adjust the price when they apply.
Adjusting(list) == SelectSeq(list, LAMBDA r : Truthy(r, "pct") \/ Truthy(r, "flat"))

\* The rules that fire on the night of `date`: the matching season rules in
\* list order, then the weekend rule.
Firing(rules, date) == Adjusting(MatchingSeasons(rules, date) \o WeekendPart(rules, date))

\* The name a fired rule is listed under.
ListedName(r) == IF r.type = "weekend" THEN WeekendName(r) ELSE r.name

\* C23: appliedRules.seasonal of a quote holds no two entries of the same
\* name, holds an entry for every season or weekend rule that fired on some
\* night and nothing else, and every night's record still lists and prices
\* every adjustment that applies to that night.
C23_DeduplicatedForDisplayOnly ==
    Returns("generateQuote") =>
        LET rules == CarPriceRules(ArgCar)
            list  == res.ret.appliedRules.seasonal
            days  == res.ret.dailyBreakdown
        IN  /\ \A i, j \in 1..Len(list) : i < j => list[i].name # list[j].name
            /\ \A k \in 1..Len(list) :
                  \E i \in 1..Len(days) :
                      \E j \in 1..Len(days[i].appliedRules) :
                          list[k] = days[i].appliedRules[j]
            /\ \A i \in 1..Len(days) :
                  \E fired \in {Firing(rules, req.startDate.t + (i - 1) * HoursPerDay)} :
                      /\ Len(days[i].appliedRules) = Len(fired)
                      /\ \A j \in 1..Len(fired) :
                            /\ days[i].appliedRules[j].name = ListedName(fired[j])
                            /\ days[i].appliedRules[j].adjustment = Adjustment(fired[j])
                            /\ \E k \in 1..Len(list) :
                                  /\ list[k].name = ListedName(fired[j])
                                  /\ list[k].type = fired[j].type
                      /\ \E amount \in {Stacked(BasePrice(ArgCar), 1, fired)} :
                            IsRounded(days[i].price, amount[1], amount[2])

\* C23 witness: three nights from a Saturday under a list whose three rules
\* fire on Saturday and on Sunday: six adjustments priced, three entries
\* listed.
C23_Witness ==
    /\ Returns("generateQuote")
    /\ CarPriceRules(ArgCar) = WeekendFirst
    /\ res.ret.nights = 3
    /\ Len(res.ret.dailyBreakdown[1].appliedRules) = 3
    /\ Len(res.ret.dailyBreakdown[2].appliedRules) = 3
    /\ res.ret.dailyBreakdown[1].price = 6060
    /\ res.ret.dailyBreakdown[2].price = 6060
    /\ res.ret.dailyBreakdown[3].price = 4141
    /\ Len(res.ret.appliedRules.seasonal) = 3

\* The car has no nightly rate: each of dailyRentalPrice and price is absent
\* or zero.
NoRate(car) ==
    /\ Has(car, "dailyRentalPrice") => car.dailyRentalPrice = 0
    /\ Has(car, "price") => car.price = 0

QuoteFields ==
    {"nightly", "nights", "subtotal", "lengthDiscount", "couponDiscount", "taxes",
     "total", "priceBreakdown", "appliedRules", "dailyBreakdown"}

\* C24: for a car without a nightly rate and a range that ends after it
\* starts generateQuote returns a quote with every field, nightly 0 and one
\* record per night, priced from a base rate of 0.
C24_MissingRateIsZero ==
    (/\ res.op = "generateQuote"
     /\ NoRate(ArgCar)
     /\ req.endDate.t > req.startDate.t)
    => /\ ~res.ret.threw
       /\ QuoteFields \subseteq DOMAIN res.ret
       /\ res.ret.nightly = 0
       /\ res.ret.nights >= 1
       /\ Len(res.ret.dailyBreakdown) = res.ret.nights
       /\ \A i \in 1..Len(res.ret.dailyBreakdown) :
             \E amount \in {NightAmount(0, CarPriceRules(ArgCar),
                                        req.startDate.t + (i - 1) * HoursPerDay)} :
                 IsRounded(res.ret.dailyBreakdown[i].price, amount[1], amount[2])

\* C24 witness: a car with neither dailyRentalPrice nor price and no rules,
\* quoted for 5 nights: everything is 0.
C24_Witness ==
    /\ Returns("generateQuote")
    /\ ~Has(ArgCar, "dailyRentalPrice") /\ ~Has(ArgCar, "price")
    /\ res.ret.nights = 5
    /\ res.ret.nightly = 0
    /\ res.ret.subtotal = 0
    /\ res.ret.total = 0

\* The answer to the request at hand had the bookings collection held
\* `stored`, the database working.
AnswerAgainst(stored) == getBookingQuote(req, cars, stored, coupons, now, FALSE)

\* Two answers carry the same quote: every pricing field, the breakdowns and
\* the coupon's outcome.
SamePricing(a, b) ==
    /\ a.status = b.status
    /\ a.body.quote = b.body.quote
    /\ a.body.couponError = b.body.couponError
    /\ DOMAIN a.body = DOMAIN b.body

\* C25: a quote request that is answered with a quote is answered with the
\* same quote against every other set of existing bookings; at most
\* unavailable and conflictingDates differ, and the quote is there when the
\* car is unavailable.
C25_AvailabilityNeverInfluencesPricing ==
    (res.op = "getBookingQuote" /\ res.ret.status = 200) =>
        /\ Has(res.ret.body, "quote")
        /\ \A stored \in BookingLists :
              \E other \in {AnswerAgainst(stored)} : SamePricing(res.ret, other)

\* C25 witness: the car is booked in the requested range and the answer
\* carries a priced quote, the one given when nothing is booked.
C25_Witness ==
    /\ res.op = "getBookingQuote"
    /\ res.ret.status = 200
    /\ res.ret.body.unavailable
    /\ Len(res.ret.body.conflictingDates) = 1
    /\ res.ret.body.quote.total > 0
    /\ ~AnswerAgainst(<<>>).body.unavailable
    /\ AnswerAgainst(<<>>).body.quote = res.ret.body.quote

\* The booking takes part in the availability of its car.
Active(b) ==
    /\ Has(b, "carId") /\ Has(b, "status") /\ Has(b, "startDate") /\ Has(b, "endDate")
    /\ b.status \in {"confirmed", "pending"}

\* The date ranges of the two bookings share an instant.
RangesOverlap(a, b) == a.startDate.t <= b.endDate.t /\ b.startDate.t <= a.endDate.t

\* C26: no two stored bookings of the same car with status confirmed or
\* pending have overlapping date ranges.
C26_NoDoubleBooking ==
    \A i, j \in 1..Len(bookings) :
        (i < j /\ Active(bookings[i]) /\ Active(bookings[j])
               /\ bookings[i].carId = bookings[j].carId)
           => ~RangesOverlap(bookings[i], bookings[j])

\* What an update request does do: it changes at most the document of its
\* id, setting the fields of its body, whatever the other bookings are.
C26_UpdateSetsFieldsOfOneBooking ==
    [][(Len(log') > Len(log) /\ log'[Len(log')].op = "updateBooking") =>
          /\ Len(bookings') = Len(bookings)
          /\ \A k \in 1..Len(bookings) :
                \/ bookings'[k] = bookings[k]
                \/ /\ BookingId(k) = log'[Len(log')].args.id
                   /\ \A f \in DOMAIN log'[Len(log')].args.body :
                         bookings'[k][f] = log'[Len(log')].args.body[f]]_vars

\* The step serves a createBooking request.
CreateStep == Len(log') = Len(log) + 1 /\ log'[Len(log')].op = "createBooking"

\* The bookingCount of the car of that id went up by one.
Incremented(id) ==
    \A car \in cars :
        car._id = id =>
            \E after \in cars' :
                after._id = id /\ BookingCount(after) = BookingCount(car) + 1

\* C27: a createBooking request answered 500 leaves the bookings and every
\* bookingCount as they were; one answered 201 has stored the booking and
\* incremented the bookingCount of its car.
C27_CreateBookingAllOrNothing ==
    [][CreateStep =>
          /\ log'[Len(log')].ret.status \in {201, 500}
          /\ log'[Len(log')].ret.status = 500 => (bookings' = bookings /\ cars' = cars)
          /\ log'[Len(log')].ret.status = 201 =>
                /\ bookings' = Append(bookings, log'[Len(log')].args)
                /\ Has(log'[Len(log')].args, "carId") =>
                      Incremented(log'[Len(log')].args.carId)]_vars

\* What holds of the answers: after 201 the booking is stored and its car's
\* count incremented, and whenever nothing was stored the answer is 500.
C27_CreatedMeansStoredAndCounted ==
    [][CreateStep =>
          /\ log'[Len(log')].ret.status = 201 =>
                /\ bookings' = Append(bookings, log'[Len(log')].args)
                /\ Has(log'[Len(log')].args, "carId") =>
                      Incremented(log'[Len(log')].args.carId)
          /\ bookings' = bookings => (log'[Len(log')].ret.status = 500 /\ cars' = cars)]_vars

\* The coupon of that code as the collection held it at the start.
InitialCoupon(code) == FindOne({c \in CouponDocs : c.code = code})

\* The positions of the log that hold a quote request naming a stored coupon.
CouponQuotes ==
    {k \in 1..Len(log) :
        /\ log[k].op = "getBookingQuote"
        /\ Has(log[k].args, "coupon")
        /\ InitialCoupon(toUpperCase(log[k].args.coupon)) # Null}

\* C28: after any sequence of quote, createBooking and updateBooking
\* requests every coupon has the usageCount it started with, and a quote
\* request naming a coupon that was active, unexpired and under its limit at
\* the start and is unexpired at the request finds it usable, whatever was
\* quoted and booked before.
C28_UsageCountNeverChanges ==
    /\ {c.code : c \in coupons} = {c.code : c \in CouponDocs}
    /\ \A c \in coupons : c.usageCount = InitialCoupon(c.code).usageCount
    /\ \A k \in CouponQuotes :
          (/\ log[k].ret.status = 200
           /\ isCouponValid(InitialCoupon(toUpperCase(log[k].args.coupon)), log[k].at).valid)
             => /\ log[k].ret.body.quote.appliedRules.coupon # Null
                /\ log[k].ret.body.couponError # Msg("Coupon usage limit reached")

\* C28 witness: a quote that applied LONGTERM, then a stored booking naming
\* LONGTERM, and the coupon's usageCount is what it was.
C28_Witness ==
    /\ Len(log) = 2
    /\ log[1].op = "getBookingQuote"
    /\ log[1].ret.status = 200
    /\ Has(log[1].args, "coupon") /\ log[1].args.coupon = "LONGTERM"
    /\ log[1].ret.body.quote.couponDiscount > 0
    /\ log[2].op = "createBooking"
    /\ log[2].ret.status = 201
    /\ Has(log[2].args, "coupon") /\ log[2].args.coupon = "LONGTERM"
    /\ InitialCoupon("LONGTERM").usageCount = 0
    /\ \E c \in coupons : c.code = "LONGTERM" /\ c.usageCount = 0

\* C29: the amounts of a quote reconcile to the cent as shown:
\* afterLengthDiscount = subtotal - lengthDiscount, afterCouponDiscount =
\* afterLengthDiscount - couponDiscount, and total = taxableAmount + taxes.
C29_AmountsReconcile ==
    Returns("generateQuote") =>
        /\ res.ret.priceBreakdown.afterLengthDiscount =
              res.ret.subtotal - res.ret.lengthDiscount
        /\ res.ret.priceBreakdown.afterCouponDiscount =
              res.ret.priceBreakdown.afterLengthDiscount - res.ret.couponDiscount
        /\ res.ret.total = res.ret.priceBreakdown.taxableAmount + res.ret.taxes

\* What does reconcile: the amount after the length discount, and the
\* amount after the coupon to within one cent.
C29_ReconcileButForTheCouponCent ==
    Returns("generateQuote") =>
        /\ res.ret.priceBreakdown.afterLengthDiscount =
              res.ret.subtotal - res.ret.lengthDiscount
        /\ res.ret.priceBreakdown.afterCouponDiscount
              - (res.ret.priceBreakdown.afterLengthDiscount - res.ret.couponDiscount)
                 \in {0, 1}

\* The positions of the log that hold an answered search request.
SearchCalls == {k \in 1..Len(log) : log[k].op = "searchCars" /\ log[k].ret.status = 200}

\* The car matches the text in carModel, model, brand or type.
TextMatch(car, text) ==
    \E f \in {"carModel", "model", "brand", "type"} :
        Has(car, f) /\ car[f] \in Containing(text)

\* The car matches the fuel in fuelType or fuel.
FuelMatch(car, fuel) ==
    \E f \in {"fuelType", "fuel"} : Has(car, f) /\ car[f] \in Containing(fuel)

\* The filters of the request other than the text and the fuel.
OtherFilters(params) ==
    BuildFilter([f \in DOMAIN params \ {"query", "fuel"} |-> params[f]])

\* C30: a search with both a text query and a fuel filter returns only cars
\* that match the text and match the fuel, and its total is the number of
\* cars of the collection that match both and the request's other filters.
C30_TextAndFuelAreConjoined ==
    \A k \in SearchCalls :
        (Has(log[k].args, "query") /\ Has(log[k].args, "fuel")) =>
            /\ \A i \in 1..Len(log[k].ret.body.cars) :
                  /\ TextMatch(log[k].ret.body.cars[i], log[k].args.query)
                  /\ FuelMatch(log[k].ret.body.cars[i], log[k].args.fuel)
            /\ log[k].ret.body.total =
                  Cardinality({c \in cars :
                      /\ TextMatch(c, log[k].args.query)
                      /\ FuelMatch(c, log[k].args.fuel)
                      /\ MatchesFilter(c, OtherFilters(log[k].args))})

\* What the search does return: the cars that match the text or match the
\* fuel, and the other filters; with only one of the two given, the cars that
\* match it.
C30_TextOrFuel ==
    \A k \in SearchCalls :
        /\ \A i \in 1..Len(log[k].ret.body.cars) :
              /\ (Has(log[k].args, "query") \/ Has(log[k].args, "fuel")) =>
                    \/ /\ Has(log[k].args, "query")
                       /\ TextMatch(log[k].ret.body.cars[i], log[k].args.query)
                    \/ /\ Has(log[k].args, "fuel")
                       /\ FuelMatch(log[k].ret.body.cars[i], log[k].args.fuel)
              /\ MatchesFilter(log[k].ret.body.cars[i], OtherFilters(log[k].args))
              /\ log[k].ret.body.cars[i] \in cars
        /\ log[k].ret.body.total =
              Cardinality({c \in cars :
                  /\ (Has(log[k].args, "query") \/ Has(log[k].args, "fuel")) =>
                        \/ Has(log[k].args, "query") /\ TextMatch(c, log[k].args.query)
                        \/ Has(log[k].args, "fuel") /\ FuelMatch(c, log[k].args.fuel)
                  /\ MatchesFilter(c, OtherFilters(log[k].args))})

====
